---- MODULE Spec2Model ----
(***************************************************************************)
(* A model of immutables/_map.c: a persistent Hash Array Mapped Trie with  *)
(* Bitmap, Array and Collision nodes, the Map facade built on it, and the  *)
(* MapMutation draft that updates nodes in place under a mutation id.      *)
(*                                                                         *)
(* Nodes live in a heap (a sequence; a node's address is its index), so    *)
(* that structural sharing and in-place updates are visible.  C arrays     *)
(* are 0-based; At(a, i) reads C index i of the sequence a.                *)
(***************************************************************************)
EXTENDS Integers, Sequences, FiniteSets, TLC

VARIABLES
    mem,            \* [heap, empty]: the node heap and _empty_bitmap_node
    maps,           \* the MapObject structs created so far
    muts,           \* the MapMutationObject structs created so far
    mutid_counter,  \* the process-wide mutation id counter
    last            \* the last public call: what was called and what it returned

vars == <<mem, maps, muts, mutid_counter, last>>

NULL == 0

\* Py_False, as the value a call returns.
Py_False == 0

(***************************************************************************)
(* Bounds of the model.                                                    *)
(***************************************************************************)
MaxMaps == 3
MaxMuts == 2
MaxMutOps == 2
MaxDraftOps == 4
MaxFinOps == 2

(***************************************************************************)
(* Program constants.                                                      *)
(***************************************************************************)
HAMT_ARRAY_NODE_SIZE == 32
_Py_HAMT_MAX_TREE_DEPTH == 8

(***************************************************************************)
(* Host objects.  A key is a hashable object, known by its 64-bit host     *)
(* hash, given as eight bytes, least significant first.  Keys 1..17 have   *)
(* the hashes 0..16; key 18 has hash 32; key 19 has hash 2**32 + 33 (the   *)
(* same 32-bit hash as key 18); key 20 has hash 2**31 + 5 (equal to key 6  *)
(* in hash bits 0..29, negative as an int32) and key 21 has hash           *)
(* 2**32 + 4 (the same 32-bit hash as key 6).  A value is a small int; its *)
(* host hash is the value itself.                                          *)
(***************************************************************************)
KeyBytes ==
    [k \in 1..17 |-> <<k - 1, 0, 0, 0, 0, 0, 0, 0>>] @@
    (18 :> <<32, 0, 0, 0, 0, 0, 0, 0>>) @@
    (19 :> <<33, 0, 0, 0, 1, 0, 0, 0>>) @@
    (20 :> <<5, 0, 0, 128, 0, 0, 0, 0>>) @@
    (21 :> <<4, 0, 0, 0, 1, 0, 0, 0>>)

AllKeys == DOMAIN KeyBytes

PyObject_Hash(o) == KeyBytes[o]

ValueBytes(v) == <<v, 0, 0, 0, 0, 0, 0, 0>>

\* Keys are compared by PyObject_RichCompareBool(.., Py_EQ): the same object,
\* or an equal one; distinct keys of the model are unequal objects.
PyObject_RichCompareBool(a, b) == a = b

At(a, i) == a[i + 1]

\* The sequence f as a tuple of its elements.
Tuple(f) == <<>> \o f

\* F applied to the value v: With(e, LAMBDA x : b) is b with x standing for the
\* value of e, which is computed once and before b is (call by value: the
\* tuple <<v>> has its element computed).
With(v, F(_)) == CASE Len(<<v>>) = 1 -> F(v)

(***************************************************************************)
(* Bit arithmetic.                                                         *)
(***************************************************************************)
Pow2(n) == 2 ^ n

BitOf(x, i) == (x \div Pow2(i)) % 2

\* a ^ b on bytes (x ^ 0 = x needs no look at the bits).
XorByte(a, b) ==
    LET d(i) == IF BitOf(a, i) # BitOf(b, i) THEN Pow2(i) ELSE 0
    IN IF b = 0 THEN a
       ELSE IF a = 0 THEN b
       ELSE d(0) + d(1) + d(2) + d(3) + d(4) + d(5) + d(6) + d(7)

\* The int32 with the given four bytes (two's complement).
Int32OfBytes(b) ==
    b[1] + 256 * b[2] + 65536 * b[3]
        + 16777216 * (IF b[4] >= 128 THEN b[4] - 256 ELSE b[4])

\* map_hash: fold the 64-bit host hash to 32 bits, -1 is remapped to -2.
map_hash(o) ==
    LET hash == PyObject_Hash(o)
        xored == Int32OfBytes(Tuple([i \in 1..4 |-> XorByte(hash[i], hash[i + 4])]))
    IN IF xored = -1 THEN -2 ELSE xored
\* A mask that takes its 5 bits 4 bit positions further on at each level.
map_mask_slow(hash, shift) ==
    LET s == ((shift \div 5) * 4) % 32
        u == IF hash < 0 /\ s > 27
             THEN (hash \div Pow2(s)) + Pow2(32 - s)
             ELSE hash \div Pow2(s)
    IN u % 32

\* map_mask: ((uint32_t)hash >> shift) & 0x01f, on the int32 value of hash.
\* A shift count of 32 or more is undefined in C; the count is then taken
\* modulo 32, as the shift instructions of x86-64 and AArch64 do.
map_mask(hash, shift) ==
    LET s == shift % 32
        u == IF hash < 0 /\ s > 27
             THEN (hash \div Pow2(s)) + Pow2(32 - s)
             ELSE hash \div Pow2(s)
    IN u % 32

\* A uint32 bitmap is the set of the positions of its 1 bits; the one-bit
\* word 1 << n is written n.
map_bitpos(hash, shift) == map_mask(hash, shift)

map_bitcount(i) == Cardinality(i)
\* The number of bits of the bitmap above bit.
map_bitindex_above(bitmap, bit) == map_bitcount({b \in bitmap : b > bit})

map_bitindex(bitmap, bit) == map_bitcount({b \in bitmap : b < bit})

(***************************************************************************)
(* Nodes.  b_array / c_array / a_array are the field "array"; a_count is   *)
(* "count"; c_hash is "hash"; b_mutid / a_mutid / c_mutid are "mutid".     *)
(***************************************************************************)
Node(type, mutid, bitmap, array, count, hash) ==
    [type |-> type, mutid |-> mutid, bitmap |-> bitmap, array |-> array,
     count |-> count, hash |-> hash]

IS_BITMAP_NODE(m, node) == m.heap[node].type = "Bitmap"
IS_ARRAY_NODE(m, node) == m.heap[node].type = "Array"
IS_COLLISION_NODE(m, node) == m.heap[node].type = "Collision"

Py_SIZE(m, node) == Len(m.heap[node].array)

\* PyObject_GC_New: a fresh object at a fresh address.
Alloc(m, rec) ==
    [mem |-> [m EXCEPT !.heap = Append(@, rec)], node |-> Len(m.heap) + 1]

\* node->array[i] = v
SetSlot(m, node, i, v) == [m EXCEPT !.heap[node].array[i + 1] = v]

map_node_bitmap_new(m, size, mutid) ==
    IF size = 0 /\ m.empty # NULL /\ mutid = 0
    THEN [mem |-> m, node |-> m.empty]
    ELSE With(Alloc(m, Node("Bitmap", mutid, {},
                            Tuple([i \in 1..size |-> NULL]), 0, 0)),
              LAMBDA a :
                  IF size = 0 /\ m.empty = NULL /\ mutid = 0
                  THEN [mem |-> [a.mem EXCEPT !.empty = a.node], node |-> a.node]
                  ELSE a)

map_node_bitmap_count(m, node) == Py_SIZE(m, node) \div 2

\* A clone that is the node itself.
bitmap_clone_shared(m, node, mutid) == [mem |-> m, node |-> node]

map_node_bitmap_clone(m, node, mutid) ==
    With(map_node_bitmap_new(m, Py_SIZE(m, node), mutid),
         LAMBDA c :
             [mem |-> [c.mem EXCEPT !.heap[c.node].array = m.heap[node].array,
                                    !.heap[c.node].bitmap = m.heap[node].bitmap],
              node |-> c.node])
\* A clone that leaves no entry out.
bitmap_clone_without_nothing(m, o, bit, mutid) ==
    With(map_node_bitmap_new(m, Py_SIZE(m, o), mutid), LAMBDA new :
        [mem |-> [new.mem EXCEPT !.heap[new.node].array = m.heap[o].array,
                                 !.heap[new.node].bitmap = m.heap[o].bitmap],
         node |-> new.node])

map_node_bitmap_clone_without(m, o, bit, mutid) ==
    LET idx == map_bitindex(m.heap[o].bitmap, bit)
        key_idx == 2 * idx
        val_idx == key_idx + 1
        old == m.heap[o].array
        arr == Tuple([i \in 1..(Len(old) - 2) |->
                        IF i - 1 < key_idx THEN At(old, i - 1) ELSE At(old, i + 1)])
    IN With(map_node_bitmap_new(m, Py_SIZE(m, o) - 2, mutid),
            LAMBDA new :
                [mem |-> [new.mem EXCEPT !.heap[new.node].array = arr,
                                         !.heap[new.node].bitmap = m.heap[o].bitmap \ {bit}],
                 node |-> new.node])

map_node_array_new(m, count, mutid) ==
    Alloc(m, Node("Array", mutid, {},
                  Tuple([i \in 1..HAMT_ARRAY_NODE_SIZE |-> NULL]), count, 0))

map_node_array_clone(m, node, mutid) ==
    With(map_node_array_new(m, m.heap[node].count, mutid),
         LAMBDA c :
             [mem |-> [c.mem EXCEPT !.heap[c.node].array = m.heap[node].array],
              node |-> c.node])
map_node_collision_new(m, hash, size, mutid) ==
    Alloc(m, Node("Collision", mutid, {}, Tuple([i \in 1..size |-> NULL]), 0, hash))

map_node_collision_count(m, node) == Py_SIZE(m, node) \div 2
\* A search of c_array that looks at its first key only.
collision_find_index_first(m, self, key) ==
    IF PyObject_RichCompareBool(key, At(m.heap[self].array, 0)) THEN 0 ELSE -1

\* map_node_collision_find_index: the C index of key in c_array, or -1.
map_node_collision_find_index(m, self, key) ==
    With({i \in 0..(Len(m.heap[self].array) - 1) :
              i % 2 = 0 /\ PyObject_RichCompareBool(key, At(m.heap[self].array, i))},
         LAMBDA hits :
             IF hits = {} THEN -1
             ELSE CHOOSE i \in hits : \A j \in hits : i <= j)

(***************************************************************************)
(* find: the value bound to key below node, or NULL (F_NOT_FOUND).         *)
(***************************************************************************)
RECURSIVE map_node_find(_, _, _, _, _)

map_node_bitmap_find(m, self, shift, hash, key) ==
    LET s == m.heap[self]
        bit == map_bitpos(hash, shift)
        idx == map_bitindex(s.bitmap, bit)
        key_idx == idx * 2
        val_idx == key_idx + 1
        key_or_null == At(s.array, key_idx)
        val_or_node == At(s.array, val_idx)
    IN IF bit \notin s.bitmap THEN [found |-> FALSE, val |-> NULL]
       ELSE IF key_or_null = NULL
       THEN map_node_find(m, val_or_node, shift + 5, hash, key)
       ELSE IF PyObject_RichCompareBool(key, key_or_null)
       THEN [found |-> TRUE, val |-> val_or_node]
       ELSE [found |-> FALSE, val |-> NULL]

map_node_array_find(m, self, shift, hash, key) ==
    LET node == At(m.heap[self].array, map_mask(hash, shift))
    IN IF node = NULL THEN [found |-> FALSE, val |-> NULL]
       ELSE map_node_find(m, node, shift + 5, hash, key)

map_node_collision_find(m, self, shift, hash, key) ==
    With(map_node_collision_find_index(m, self, key), LAMBDA idx :
        IF idx < 0 THEN [found |-> FALSE, val |-> NULL]
        ELSE [found |-> TRUE, val |-> At(m.heap[self].array, idx + 1)])

map_node_find(m, node, shift, hash, key) ==
    IF IS_BITMAP_NODE(m, node) THEN map_node_bitmap_find(m, node, shift, hash, key)
    ELSE IF IS_ARRAY_NODE(m, node) THEN map_node_array_find(m, node, shift, hash, key)
    ELSE map_node_collision_find(m, node, shift, hash, key)

(***************************************************************************)
(* assoc: [mem, node, added_leaf]; node is the node that now stands for    *)
(* the subtree (self when nothing changed or self was updated in place).   *)
(***************************************************************************)
RECURSIVE map_node_assoc(_, _, _, _, _, _, _)
RECURSIVE map_node_bitmap_assoc(_, _, _, _, _, _, _, _)
RECURSIVE BitmapToArray(_, _, _, _, _, _, _, _, _)

Ret(m, node, added_leaf) == [mem |-> m, node |-> node, added_leaf |-> added_leaf]
\* A helper that makes a Collision node of two keys as soon as their hashes
\* have the same 5-bit index at shift.
new_bitmap_or_collision_early(m, shift, key1, val1, key2_hash, key2, val2, mutid) ==
    With(map_hash(key1), LAMBDA key1_hash :
        IF map_mask(key1_hash, shift) = map_mask(key2_hash, shift)
        THEN With(map_node_collision_new(m, key1_hash, 4, mutid), LAMBDA n :
                 [mem |-> [n.mem EXCEPT !.heap[n.node].array = <<key1, val1, key2, val2>>],
                  node |-> n.node])
        ELSE With(map_node_bitmap_new(m, 0, mutid), LAMBDA n :
             With(map_node_assoc(n.mem, n.node, shift, key1_hash, key1, val1, mutid),
                  LAMBDA n2 :
             With(map_node_assoc(n2.mem, n2.node, shift, key2_hash, key2, val2, mutid),
                  LAMBDA n3 :
                 [mem |-> n3.mem, node |-> n3.node]))))

map_node_new_bitmap_or_collision(m, shift, key1, val1, key2_hash, key2, val2, mutid) ==
    With(map_hash(key1), LAMBDA key1_hash :
        IF key1_hash = key2_hash
        THEN With(map_node_collision_new(m, key1_hash, 4, mutid), LAMBDA n :
                 [mem |-> [n.mem EXCEPT !.heap[n.node].array = <<key1, val1, key2, val2>>],
                  node |-> n.node])
        ELSE With(map_node_bitmap_new(m, 0, mutid), LAMBDA n :
             With(map_node_assoc(n.mem, n.node, shift, key1_hash, key1, val1, mutid),
                  LAMBDA n2 :
             With(map_node_assoc(n2.mem, n2.node, shift, key2_hash, key2, val2, mutid),
                  LAMBDA n3 :
                 [mem |-> n3.mem, node |-> n3.node]))))

\* The loop of map_node_bitmap_assoc that copies the entries of the Bitmap node
\* self into the new Array node, for the slots i..k in order (the lower half
\* of the range, then the upper half); j is the index into b_array, which has
\* advanced by two for every bit of the bitmap below i.
BitmapToArray(m, self, new_node, empty, shift, mutid, added_leaf, i, k) ==
    IF i = k
    THEN
        With(2 * map_bitindex(m.heap[self].bitmap, i), LAMBDA j :
        IF i \notin m.heap[self].bitmap THEN Ret(m, new_node, added_leaf)
        ELSE IF At(m.heap[self].array, j) = NULL
        THEN Ret(SetSlot(m, new_node, i, At(m.heap[self].array, j + 1)),
                 new_node, added_leaf)
        ELSE With(map_node_assoc(m, empty, shift + 5,
                                 map_hash(At(m.heap[self].array, j)),
                                 At(m.heap[self].array, j),
                                 At(m.heap[self].array, j + 1), mutid),
                  LAMBDA r :
                      Ret(SetSlot(r.mem, new_node, i, r.node), new_node, r.added_leaf)))
    ELSE With(BitmapToArray(m, self, new_node, empty, shift, mutid, added_leaf,
                            i, (i + k) \div 2), LAMBDA r :
             BitmapToArray(r.mem, self, new_node, empty, shift, mutid, r.added_leaf,
                           (i + k) \div 2 + 1, k))

map_node_bitmap_assoc(m, self, shift, hash, key, val, added_leaf, mutid) ==
    LET s == m.heap[self]
        bit == map_bitpos(hash, shift)
        idx == map_bitindex(s.bitmap, bit)
        key_idx == 2 * idx
        val_idx == 2 * idx + 1
        key_or_null == At(s.array, key_idx)
        val_or_node == At(s.array, val_idx)
        n == map_bitcount(s.bitmap)
    IN
    IF bit \in s.bitmap
    THEN
        IF key_or_null = NULL
        THEN
            With(map_node_assoc(m, val_or_node, shift + 5, hash, key, val, mutid),
                 LAMBDA sub :
                IF val_or_node = sub.node
                THEN Ret(sub.mem, self, sub.added_leaf)
                ELSE IF mutid # 0 /\ s.mutid = mutid
                THEN Ret(SetSlot(sub.mem, self, val_idx, sub.node), self, sub.added_leaf)
                ELSE With(map_node_bitmap_clone(sub.mem, self, mutid), LAMBDA ret :
                         Ret(SetSlot(ret.mem, ret.node, val_idx, sub.node),
                             ret.node, sub.added_leaf)))
        ELSE IF PyObject_RichCompareBool(key, key_or_null)
        THEN
            IF val = val_or_node
            THEN Ret(m, self, added_leaf)
            ELSE IF mutid # 0 /\ s.mutid = mutid
            THEN Ret(SetSlot(m, self, val_idx, val), self, added_leaf)
            ELSE With(map_node_bitmap_clone(m, self, mutid), LAMBDA ret :
                     Ret(SetSlot(ret.mem, ret.node, val_idx, val), ret.node, added_leaf))
        ELSE
            With(map_node_new_bitmap_or_collision(
                     m, shift + 5, key_or_null, val_or_node, hash, key, val, s.mutid),
                 LAMBDA sub :
                IF mutid # 0 /\ s.mutid = mutid
                THEN Ret(SetSlot(SetSlot(sub.mem, self, key_idx, NULL),
                                 self, val_idx, sub.node), self, 1)
                ELSE With(map_node_bitmap_clone(sub.mem, self, mutid), LAMBDA ret :
                         Ret(SetSlot(SetSlot(ret.mem, ret.node, key_idx, NULL),
                                     ret.node, val_idx, sub.node), ret.node, 1)))
    ELSE IF n >= 16
    THEN
        With(map_node_array_new(m, n + 1, mutid), LAMBDA new_node :
        With(map_node_bitmap_new(new_node.mem, 0, mutid), LAMBDA empty :
        With(map_node_assoc(empty.mem, empty.node, shift + 5,
                            hash, key, val, mutid), LAMBDA first :
            BitmapToArray(SetSlot(first.mem, new_node.node,
                                  map_mask(hash, shift), first.node),
                          self, new_node.node, empty.node, shift, mutid,
                          first.added_leaf, 0, HAMT_ARRAY_NODE_SIZE - 1))))
    ELSE
        With(map_node_bitmap_new(m, 2 * (n + 1), mutid), LAMBDA new_node :
            Ret([new_node.mem EXCEPT
                     !.heap[new_node.node].array =
                         Tuple([i \in 1..(2 * (n + 1)) |->
                                   IF i - 1 < key_idx THEN At(s.array, i - 1)
                                   ELSE IF i - 1 = key_idx THEN key
                                   ELSE IF i - 1 = val_idx THEN val
                                   ELSE At(s.array, i - 3)]),
                     !.heap[new_node.node].bitmap = s.bitmap \cup {bit}],
                new_node.node, 1))

map_node_array_assoc(m, self, shift, hash, key, val, added_leaf, mutid) ==
    With(m.heap[self], LAMBDA s :
    With(map_mask(hash, shift), LAMBDA idx :
    With(At(s.array, idx), LAMBDA node :
    IF node = NULL
    THEN
        With(map_node_bitmap_new(m, 0, mutid), LAMBDA empty :
        With(map_node_bitmap_assoc(empty.mem, empty.node, shift + 5,
                                   hash, key, val, added_leaf, mutid), LAMBDA child :
            IF mutid # 0 /\ s.mutid = mutid
            THEN Ret(SetSlot([child.mem EXCEPT !.heap[self].count = @ + 1],
                             self, idx, child.node), self, child.added_leaf)
            ELSE With(map_node_array_new(child.mem, s.count + 1, mutid),
                      LAMBDA new_node :
                     Ret(SetSlot([new_node.mem EXCEPT
                                      !.heap[new_node.node].array = s.array],
                                 new_node.node, idx, child.node),
                         new_node.node, child.added_leaf))))
    ELSE
        With(map_node_assoc(m, node, shift + 5, hash, key, val, mutid), LAMBDA child :
            IF child.node = self
            THEN Ret(child.mem, self, child.added_leaf)
            ELSE IF mutid # 0 /\ s.mutid = mutid
            THEN Ret(SetSlot(child.mem, self, idx, child.node), self, child.added_leaf)
            ELSE With(map_node_array_clone(child.mem, self, mutid), LAMBDA new_node :
                     Ret(SetSlot(new_node.mem, new_node.node, idx, child.node),
                         new_node.node, child.added_leaf))))))

map_node_collision_assoc(m, self, shift, hash, key, val, added_leaf, mutid) ==
    With(m.heap[self], LAMBDA s :
    IF hash = s.hash
    THEN
        With(map_node_collision_find_index(m, self, key), LAMBDA key_idx :
        With(key_idx + 1, LAMBDA val_idx :
        IF key_idx < 0
        THEN With(map_node_collision_new(m, s.hash, Len(s.array) + 2, mutid),
                  LAMBDA new_node :
                 Ret([new_node.mem EXCEPT !.heap[new_node.node].array =
                                              s.array \o <<key, val>>],
                     new_node.node, 1))
        ELSE IF At(s.array, val_idx) = val
        THEN Ret(m, self, added_leaf)
        ELSE IF mutid # 0 /\ s.mutid = mutid
        THEN Ret(SetSlot(m, self, val_idx, val), self, added_leaf)
        ELSE With(map_node_collision_new(m, s.hash, Len(s.array), mutid),
                  LAMBDA new_node :
                 Ret(SetSlot([new_node.mem EXCEPT !.heap[new_node.node].array = s.array],
                             new_node.node, val_idx, val),
                     new_node.node, added_leaf))))
    ELSE
        With(map_node_bitmap_new(m, 2, mutid), LAMBDA new_node :
            map_node_bitmap_assoc(
                [new_node.mem EXCEPT
                     !.heap[new_node.node].bitmap = {map_bitpos(s.hash, shift)},
                     !.heap[new_node.node].array = <<NULL, self>>],
                new_node.node, shift, hash, key, val, added_leaf, mutid)))

\* The dispatcher clears *added_leaf before it calls the node's own assoc.
map_node_assoc(m, node, shift, hash, key, val, mutid) ==
    IF IS_BITMAP_NODE(m, node)
    THEN map_node_bitmap_assoc(m, node, shift, hash, key, val, 0, mutid)
    ELSE IF IS_ARRAY_NODE(m, node)
    THEN map_node_array_assoc(m, node, shift, hash, key, val, 0, mutid)
    ELSE map_node_collision_assoc(m, node, shift, hash, key, val, 0, mutid)

(***************************************************************************)
(* without: [mem, res, node] with res one of W_NOT_FOUND, W_EMPTY,         *)
(* W_NEWNODE (node is then the replacement) and W_ABORT, the abort() of    *)
(* map_node_bitmap_without, which ends the process.                        *)
(***************************************************************************)
RECURSIVE map_node_without(_, _, _, _, _, _)
RECURSIVE ArrayToBitmap(_, _, _, _, _, _)

WRet(m, res, node) == [mem |-> m, res |-> res, node |-> node]
\* A without of a Bitmap node that never inlines the single leaf left in a
\* child.
bitmap_without_no_inline(m, self, shift, hash, key, mutid) ==
    With(m.heap[self], LAMBDA s :
    With(map_bitpos(hash, shift), LAMBDA bit :
    With(map_bitindex(s.bitmap, bit), LAMBDA idx :
    IF bit \notin s.bitmap THEN WRet(m, "W_NOT_FOUND", NULL)
    ELSE IF At(s.array, 2 * idx) = NULL
    THEN With(map_node_without(m, At(s.array, 2 * idx + 1), shift + 5, hash, key, mutid),
              LAMBDA sub :
             IF sub.res = "W_EMPTY" THEN WRet(sub.mem, "W_ABORT", NULL)
             ELSE IF sub.res = "W_NEWNODE"
             THEN With(IF mutid # 0 /\ s.mutid = mutid
                       THEN [mem |-> sub.mem, node |-> self]
                       ELSE map_node_bitmap_clone(sub.mem, self, mutid), LAMBDA target :
                      WRet(SetSlot(target.mem, target.node, 2 * idx + 1, sub.node),
                           "W_NEWNODE", target.node))
             ELSE sub)
    ELSE IF ~PyObject_RichCompareBool(At(s.array, 2 * idx), key)
    THEN WRet(m, "W_NOT_FOUND", NULL)
    ELSE IF map_node_bitmap_count(m, self) = 1
    THEN WRet(m, "W_EMPTY", NULL)
    ELSE With(map_node_bitmap_clone_without(m, self, bit, mutid), LAMBDA new :
             WRet(new.mem, "W_NEWNODE", new.node)))))

map_node_bitmap_without(m, self, shift, hash, key, mutid) ==
    LET s == m.heap[self]
        bit == map_bitpos(hash, shift)
        idx == map_bitindex(s.bitmap, bit)
        key_idx == 2 * idx
        val_idx == 2 * idx + 1
        key_or_null == At(s.array, key_idx)
        val_or_node == At(s.array, val_idx)
    IN
    IF bit \notin s.bitmap THEN WRet(m, "W_NOT_FOUND", NULL)
    ELSE IF key_or_null = NULL
    THEN
        With(map_node_without(m, val_or_node, shift + 5, hash, key, mutid),
             LAMBDA sub :
        IF sub.res = "W_EMPTY" THEN WRet(sub.mem, "W_ABORT", NULL)
        ELSE IF sub.res = "W_NEWNODE"
        THEN
            With(IF mutid # 0 /\ s.mutid = mutid
                 THEN [mem |-> sub.mem, node |-> self]
                 ELSE map_node_bitmap_clone(sub.mem, self, mutid), LAMBDA target :
                IF /\ IS_BITMAP_NODE(sub.mem, sub.node)
                   /\ map_node_bitmap_count(sub.mem, sub.node) = 1
                   /\ At(sub.mem.heap[sub.node].array, 0) # NULL
                THEN WRet(SetSlot(SetSlot(target.mem, target.node, key_idx,
                                          At(sub.mem.heap[sub.node].array, 0)),
                                  target.node, val_idx,
                                  At(sub.mem.heap[sub.node].array, 1)),
                          "W_NEWNODE", target.node)
                ELSE WRet(SetSlot(target.mem, target.node, val_idx, sub.node),
                          "W_NEWNODE", target.node))
        ELSE sub)
    ELSE IF ~PyObject_RichCompareBool(key_or_null, key)
    THEN WRet(m, "W_NOT_FOUND", NULL)
    ELSE IF map_node_bitmap_count(m, self) = 1
    THEN WRet(m, "W_EMPTY", NULL)
    ELSE With(map_node_bitmap_clone_without(m, self, bit, mutid), LAMBDA new :
             WRet(new.mem, "W_NEWNODE", new.node))
\* The demotion loop with every child kept as a child: a Bitmap child of one
\* leaf is not inlined.
array_to_bitmap_no_inline(m, self, new, idx, i, k) ==
    IF i = k
    THEN
        IF i = idx \/ At(m.heap[self].array, i) = NULL THEN m
        ELSE
            With(At(m.heap[self].array, i), LAMBDA node :
            With(2 * Cardinality({x \in 0..(i - 1) :
                                      x # idx /\ At(m.heap[self].array, x) # NULL}),
                 LAMBDA new_i :
            With([m EXCEPT !.heap[new].bitmap = @ \cup {i}], LAMBDA marked :
                SetSlot(SetSlot(marked, new, new_i, NULL), new, new_i + 1, node))))
    ELSE With(ArrayToBitmap(m, self, new, idx, i, (i + k) \div 2), LAMBDA m1 :
             ArrayToBitmap(m1, self, new, idx, (i + k) \div 2 + 1, k))

\* The loop of map_node_array_without that builds the replacement Bitmap node
\* new from the slots i..k of the Array node self other than idx, in order (the
\* lower half of the range, then the upper half); new_i is the next free index
\* of b_array, which has advanced by two for every slot copied so far.
ArrayToBitmap(m, self, new, idx, i, k) ==
    IF i = k
    THEN
        IF i = idx \/ At(m.heap[self].array, i) = NULL THEN m
        ELSE
            With(At(m.heap[self].array, i), LAMBDA node :
            With(2 * Cardinality({x \in 0..(i - 1) :
                                      x # idx /\ At(m.heap[self].array, x) # NULL}),
                 LAMBDA new_i :
            With([m EXCEPT !.heap[new].bitmap = @ \cup {i}], LAMBDA marked :
                IF /\ IS_BITMAP_NODE(m, node)
                   /\ map_node_bitmap_count(m, node) = 1
                   /\ At(m.heap[node].array, 0) # NULL
                THEN SetSlot(SetSlot(marked, new, new_i, At(m.heap[node].array, 0)),
                             new, new_i + 1, At(m.heap[node].array, 1))
                ELSE SetSlot(SetSlot(marked, new, new_i, NULL), new, new_i + 1, node))))
    ELSE With(ArrayToBitmap(m, self, new, idx, i, (i + k) \div 2), LAMBDA m1 :
             ArrayToBitmap(m1, self, new, idx, (i + k) \div 2 + 1, k))
\* A without of an Array node that clears the slot and leaves a_count as it is.
array_without_keep_count(m, self, shift, hash, key, mutid) ==
    With(m.heap[self], LAMBDA s :
    With(map_mask(hash, shift), LAMBDA idx :
    With(At(s.array, idx), LAMBDA node :
    IF node = NULL THEN WRet(m, "W_NOT_FOUND", NULL)
    ELSE
        With(map_node_without(m, node, shift + 5, hash, key, mutid), LAMBDA sub :
        IF sub.res = "W_NEWNODE"
        THEN With(IF mutid # 0 /\ s.mutid = mutid
                  THEN [mem |-> sub.mem, node |-> self]
                  ELSE map_node_array_clone(sub.mem, self, mutid), LAMBDA target :
                 WRet(SetSlot(target.mem, target.node, idx, sub.node),
                      "W_NEWNODE", target.node))
        ELSE IF sub.res = "W_EMPTY"
        THEN
            With(s.count - 1, LAMBDA new_count :
            IF new_count = 0 THEN WRet(sub.mem, "W_EMPTY", NULL)
            ELSE IF new_count >= 16
            THEN With(IF mutid # 0 /\ s.mutid = mutid
                      THEN [mem |-> sub.mem, node |-> self]
                      ELSE map_node_array_clone(sub.mem, self, mutid), LAMBDA target :
                     WRet(SetSlot(target.mem, target.node, idx, NULL),
                          "W_NEWNODE", target.node))
            ELSE With(map_node_bitmap_new(sub.mem, new_count * 2, mutid), LAMBDA new :
                     WRet(ArrayToBitmap(new.mem, self, new.node, idx, 0, HAMT_ARRAY_NODE_SIZE - 1),
                          "W_NEWNODE", new.node)))
        ELSE sub))))

map_node_array_without(m, self, shift, hash, key, mutid) ==
    With(m.heap[self], LAMBDA s :
    With(map_mask(hash, shift), LAMBDA idx :
    With(At(s.array, idx), LAMBDA node :
    IF node = NULL THEN WRet(m, "W_NOT_FOUND", NULL)
    ELSE
        With(map_node_without(m, node, shift + 5, hash, key, mutid), LAMBDA sub :
        IF sub.res = "W_NEWNODE"
        THEN With(IF mutid # 0 /\ s.mutid = mutid
                  THEN [mem |-> sub.mem, node |-> self]
                  ELSE map_node_array_clone(sub.mem, self, mutid), LAMBDA target :
                 WRet(SetSlot(target.mem, target.node, idx, sub.node),
                      "W_NEWNODE", target.node))
        ELSE IF sub.res = "W_EMPTY"
        THEN
            With(s.count - 1, LAMBDA new_count :
            IF new_count = 0 THEN WRet(sub.mem, "W_EMPTY", NULL)
            ELSE IF new_count >= 16
            THEN With(IF mutid # 0 /\ s.mutid = mutid
                      THEN [mem |-> sub.mem, node |-> self]
                      ELSE map_node_array_clone(sub.mem, self, mutid), LAMBDA target :
                     WRet(SetSlot([target.mem EXCEPT
                                       !.heap[target.node].count = new_count],
                                  target.node, idx, NULL),
                          "W_NEWNODE", target.node))
            ELSE With(map_node_bitmap_new(sub.mem, new_count * 2, mutid), LAMBDA new :
                     WRet(ArrayToBitmap(new.mem, self, new.node, idx, 0, HAMT_ARRAY_NODE_SIZE - 1),
                          "W_NEWNODE", new.node)))
        ELSE sub))))
\* A without of a Collision node that answers with a Collision node also when
\* one binding is left.
collision_without_keep_node(m, self, shift, hash, key, mutid) ==
    With(m.heap[self], LAMBDA s :
    IF hash # s.hash THEN WRet(m, "W_NOT_FOUND", NULL)
    ELSE
        With(map_node_collision_find_index(m, self, key), LAMBDA key_idx :
        With(map_node_collision_count(m, self) - 1, LAMBDA new_count :
        IF key_idx < 0 THEN WRet(m, "W_NOT_FOUND", NULL)
        ELSE IF new_count = 0 THEN WRet(m, "W_EMPTY", NULL)
        ELSE With(map_node_collision_new(m, s.hash, Len(s.array) - 2, mutid),
                  LAMBDA new :
                 WRet([new.mem EXCEPT
                           !.heap[new.node].array =
                               Tuple([i \in 1..(Len(s.array) - 2) |->
                                         IF i - 1 < key_idx THEN At(s.array, i - 1)
                                         ELSE At(s.array, i + 1)])],
                      "W_NEWNODE", new.node)))))

map_node_collision_without(m, self, shift, hash, key, mutid) ==
    With(m.heap[self], LAMBDA s :
    IF hash # s.hash THEN WRet(m, "W_NOT_FOUND", NULL)
    ELSE
        With(map_node_collision_find_index(m, self, key), LAMBDA key_idx :
        With(map_node_collision_count(m, self) - 1, LAMBDA new_count :
        IF key_idx < 0 THEN WRet(m, "W_NOT_FOUND", NULL)
        ELSE IF new_count = 0 THEN WRet(m, "W_EMPTY", NULL)
        ELSE IF new_count = 1
        THEN With(map_node_bitmap_new(m, 2, mutid), LAMBDA node :
                 WRet([node.mem EXCEPT
                           !.heap[node.node].array =
                               IF key_idx = 0
                               THEN <<At(s.array, 2), At(s.array, 3)>>
                               ELSE <<At(s.array, 0), At(s.array, 1)>>,
                           !.heap[node.node].bitmap = {map_bitpos(hash, shift)}],
                      "W_NEWNODE", node.node))
        ELSE With(map_node_collision_new(m, s.hash, Len(s.array) - 2, mutid),
                  LAMBDA new :
                 WRet([new.mem EXCEPT
                           !.heap[new.node].array =
                               Tuple([i \in 1..(Len(s.array) - 2) |->
                                         IF i - 1 < key_idx THEN At(s.array, i - 1)
                                         ELSE At(s.array, i + 1)])],
                      "W_NEWNODE", new.node)))))

map_node_without(m, node, shift, hash, key, mutid) ==
    IF IS_BITMAP_NODE(m, node)
    THEN map_node_bitmap_without(m, node, shift, hash, key, mutid)
    ELSE IF IS_ARRAY_NODE(m, node)
    THEN map_node_array_without(m, node, shift, hash, key, mutid)
    ELSE map_node_collision_without(m, node, shift, hash, key, mutid)

(***************************************************************************)
(* The iterator: MapIteratorState is [nodes, pos, level].  A step returns  *)
(* [iter, res, key, val]; res is I_ITEM, I_END, or I_OVERFLOW when the     *)
(* descent would leave the i_nodes / i_pos arrays.                         *)
(***************************************************************************)
RECURSIVE map_iterator_next(_, _)

map_iterator_init(root) ==
    [nodes |-> Tuple([i \in 1.._Py_HAMT_MAX_TREE_DEPTH |-> IF i = 1 THEN root ELSE NULL]),
     pos |-> Tuple([i \in 1.._Py_HAMT_MAX_TREE_DEPTH |-> 0]),
     level |-> 0]

IRet(iter, res, key, val) == [iter |-> iter, res |-> res, key |-> key, val |-> val]

\* i_level--, then map_iterator_next.
IterPop(m, iter) == map_iterator_next(m, [iter EXCEPT !.level = @ - 1])
\* A descent that keeps one more level of the arrays free.
iter_descend_short(m, iter, newpos, child) ==
    LET level == iter.level
    IN IF ~(level + 2 < _Py_HAMT_MAX_TREE_DEPTH)
       THEN IRet(iter, "I_OVERFLOW", NULL, NULL)
       ELSE map_iterator_next(m, [iter EXCEPT !.pos[level + 1] = newpos,
                                             !.level = level + 1,
                                             !.pos[level + 2] = 0,
                                             !.nodes[level + 2] = child])

\* Enter child at the next level, then map_iterator_next.
IterDescend(m, iter, newpos, child) ==
    LET level == iter.level
    IN IF ~(level + 1 < _Py_HAMT_MAX_TREE_DEPTH)
       THEN IRet(iter, "I_OVERFLOW", NULL, NULL)
       ELSE map_iterator_next(m, [iter EXCEPT !.pos[level + 1] = newpos,
                                             !.level = level + 1,
                                             !.pos[level + 2] = 0,
                                             !.nodes[level + 2] = child])

map_iterator_bitmap_next(m, iter) ==
    LET level == iter.level
        node == iter.nodes[level + 1]
        pos == iter.pos[level + 1]
    IN IF pos + 1 >= Py_SIZE(m, node) THEN IterPop(m, iter)
       ELSE IF At(m.heap[node].array, pos) = NULL
       THEN IterDescend(m, iter, pos + 2, At(m.heap[node].array, pos + 1))
       ELSE IRet([iter EXCEPT !.pos[level + 1] = pos + 2], "I_ITEM",
                 At(m.heap[node].array, pos), At(m.heap[node].array, pos + 1))
\* An iterator step that yields the first entry of a Collision node only.
collision_next_first_only(m, iter) ==
    LET level == iter.level
        node == iter.nodes[level + 1]
        pos == iter.pos[level + 1]
    IN IF pos >= 2 THEN IterPop(m, iter)
       ELSE IRet([iter EXCEPT !.pos[level + 1] = pos + 2], "I_ITEM",
                 At(m.heap[node].array, pos), At(m.heap[node].array, pos + 1))

map_iterator_collision_next(m, iter) ==
    LET level == iter.level
        node == iter.nodes[level + 1]
        pos == iter.pos[level + 1]
    IN IF pos + 1 >= Py_SIZE(m, node) THEN IterPop(m, iter)
       ELSE IRet([iter EXCEPT !.pos[level + 1] = pos + 2], "I_ITEM",
                 At(m.heap[node].array, pos), At(m.heap[node].array, pos + 1))

map_iterator_array_next(m, iter) ==
    With(iter.nodes[iter.level + 1], LAMBDA node :
    With(iter.pos[iter.level + 1], LAMBDA pos :
    With({i \in pos..(HAMT_ARRAY_NODE_SIZE - 1) : At(m.heap[node].array, i) # NULL},
         LAMBDA rest :
        IF pos >= HAMT_ARRAY_NODE_SIZE \/ rest = {} THEN IterPop(m, iter)
        ELSE With(CHOOSE x \in rest : \A y \in rest : x <= y, LAMBDA i :
                 IterDescend(m, iter, i + 1, At(m.heap[node].array, i))))))

map_iterator_next(m, iter) ==
    IF iter.level < 0 THEN IRet(iter, "I_END", NULL, NULL)
    ELSE LET current == iter.nodes[iter.level + 1]
         IN IF IS_BITMAP_NODE(m, current) THEN map_iterator_bitmap_next(m, iter)
            ELSE IF IS_ARRAY_NODE(m, current) THEN map_iterator_array_next(m, iter)
            ELSE map_iterator_collision_next(m, iter)

\* The items the iterator yields from root, in order: << <<key, val>>, ... >>.
RECURSIVE IterItems(_, _)
IterItems(m, iter) ==
    With(map_iterator_next(m, iter), LAMBDA r :
        IF r.res = "I_ITEM" THEN <<<<r.key, r.val>>>> \o IterItems(m, r.iter)
        ELSE <<>>)

(***************************************************************************)
(* Map and MapMutation objects.  addr is the object's identity; origin     *)
(* (Map) and ref, ops, scope (MapMutation) are history fields that record  *)
(* how the object came about, what a dict given the same calls would hold, *)
(* how many mutating calls the draft has seen, and whether a with block of *)
(* the draft is open.                                                      *)
(***************************************************************************)
HashUnset == <<255, 255, 255, 255, 255, 255, 255, 255>>    \* h_hash = -1

map_find(m, o, key) ==
    IF o.count = 0 THEN [found |-> FALSE, val |-> NULL]
    ELSE map_node_find(m, o.root, 0, map_hash(key), key)

map_len(o) == o.count

RECURSIVE map_eq_loop(_, _, _)
map_eq_loop(m, iter, w) ==
    With(map_iterator_next(m, iter), LAMBDA r :
        IF r.res # "I_ITEM" THEN TRUE
        ELSE With(map_find(m, w, r.key), LAMBDA f :
                 IF ~f.found THEN FALSE
                 ELSE IF ~PyObject_RichCompareBool(r.val, f.val) THEN FALSE
                 ELSE map_eq_loop(m, r.iter, w)))
\* An equality that does not compare the counts.
map_eq_no_count(m, v, w) ==
    IF v.addr = w.addr THEN TRUE
    ELSE map_eq_loop(m, map_iterator_init(v.root), w)

map_eq(m, v, w) ==
    IF v.addr = w.addr THEN TRUE
    ELSE IF v.count # w.count THEN FALSE
    ELSE map_eq_loop(m, map_iterator_init(v.root), w)

(***************************************************************************)
(* Map.__hash__.  Py_uhash_t values are 64-bit words, kept as their eight  *)
(* bytes, least significant first; all arithmetic is modulo 2^64.          *)
(***************************************************************************)
Word(n) == Tuple([i \in 1..8 |-> IF i > 4 THEN 0 ELSE (n \div (256 ^ (i - 1))) % 256])    \* 0 <= n < 2^31

Xor64(a, b) == Tuple([i \in 1..8 |-> XorByte(a[i], b[i])])

ByteAt(a, i) == IF i \in 1..8 THEN a[i] ELSE 0

\* a << (8 * q)
Shl64Bytes(a, q) == Tuple([i \in 1..8 |-> ByteAt(a, i - q)])

\* a >> n
Shr64(a, n) ==
    LET q == n \div 8
        r == n % 8
    IN Tuple([i \in 1..8 |->
                 (ByteAt(a, i + q) \div Pow2(r))
                 + (ByteAt(a, i + q + 1) % Pow2(r)) * Pow2(8 - r)])

RECURSIVE Carry64(_, _, _)
\* Propagate carries through the column sums cols[k..8].
Carry64(cols, k, carry) ==
    IF k > 8 THEN <<>>
    ELSE LET t == cols[k] + carry
         IN <<t % 256>> \o Carry64(cols, k + 1, t \div 256)

Add64(a, b) == Carry64(Tuple([k \in 1..8 |-> a[k] + b[k]]), 1, 0)

RECURSIVE ColSum(_, _, _, _)
ColSum(a, b, k, i) ==
    IF i > k THEN 0 ELSE a[i] * b[k + 1 - i] + ColSum(a, b, k, i + 1)

Mul64(a, b) == Carry64(Tuple([k \in 1..8 |-> ColSum(a, b, k, 1)]), 1, 0)

\* ((h ^ 89869747UL) ^ (h << 16)) * 3644798167UL
_shuffle_bits(h) ==
    Mul64(Xor64(Xor64(h, Word(89869747)), Shl64Bytes(h, 2)),
          <<215, 52, 63, 217, 0, 0, 0, 0>>)

RECURSIVE map_py_hash_loop(_, _, _)
\* The loop of map_py_hash over the items left in iter.
map_py_hash_loop(m, iter, hash) ==
    With(map_iterator_next(m, iter), LAMBDA r :
        IF r.res # "I_ITEM" THEN hash
        ELSE With(Xor64(Xor64(hash, _shuffle_bits(PyObject_Hash(r.key))),
                        _shuffle_bits(ValueBytes(r.val))), LAMBDA h :
                 map_py_hash_loop(m, r.iter, h)))

\* The value map_py_hash returns for the Map object self, which it also stores
\* in self->h_hash.
map_py_hash(m, self) ==
    IF self.hash # HashUnset THEN self.hash
    ELSE With(map_py_hash_loop(m, map_iterator_init(self.root), Word(0)), LAMBDA h0 :
         With(Xor64(h0, Mul64(Word(self.count * 2 + 1), Word(1927868237))), LAMBDA h1 :
         With(Xor64(h1, Xor64(Shr64(h1, 11), Shr64(h1, 25))), LAMBDA h2 :
         With(Add64(Mul64(h2, Word(69069)), Word(907133923)), LAMBDA h3 :
             IF h3 = HashUnset THEN Word(1) ELSE h3))))

(***************************************************************************)
(* The Map facade.                                                         *)
(***************************************************************************)
\* map_alloc: a MapObject with h_hash = -1, h_count = 0 and no root yet.
map_alloc(addr) ==
    [addr |-> addr, root |-> NULL, count |-> 0, hash |-> HashUnset,
     origin |-> [op |-> "new", src |-> 0, key |-> NULL, val |-> NULL,
                 arg |-> "none", argmap |-> 0, kwds |-> "none"],
     born |-> [len |-> 0, find |-> <<>>, items |-> <<>>]]

\* map_new: [mem, o].
map_new(m, addr) ==
    With(map_node_bitmap_new(m, 0, 0), LAMBDA r :
        [mem |-> r.mem, o |-> [map_alloc(addr) EXCEPT !.root = r.node]])
\* An assoc whose result counts one binding more than o in every case.
map_assoc_count_always(m, o, key, val, addr) ==
    With(map_node_assoc(m, o.root, 0, map_hash(key), key, val, 0), LAMBDA r :
        IF r.node = o.root
        THEN [mem |-> r.mem, same |-> TRUE, o |-> o]
        ELSE [mem |-> r.mem, same |-> FALSE,
              o |-> [map_alloc(addr) EXCEPT !.root = r.node, !.count = o.count + 1]])

\* map_assoc: [mem, same, o]; same says that o itself is returned, otherwise
\* o is the new MapObject (at address addr).
map_assoc(m, o, key, val, addr) ==
    With(map_node_assoc(m, o.root, 0, map_hash(key), key, val, 0), LAMBDA r :
        IF r.node = o.root
        THEN [mem |-> r.mem, same |-> TRUE, o |-> o]
        ELSE [mem |-> r.mem, same |-> FALSE,
              o |-> [map_alloc(addr) EXCEPT
                         !.root = r.node,
                         !.count = IF r.added_leaf # 0 THEN o.count + 1 ELSE o.count]])
\* A without whose result keeps the count of o.
map_without_keep_count(m, o, key, addr) ==
    With(map_node_without(m, o.root, 0, map_hash(key), key, 0), LAMBDA r :
        IF r.res = "W_EMPTY"
        THEN With(map_new(r.mem, addr), LAMBDA n : [mem |-> n.mem, err |-> "", o |-> n.o])
        ELSE IF r.res = "W_NOT_FOUND"
        THEN [mem |-> r.mem, err |-> "KeyError", o |-> o]
        ELSE IF r.res = "W_NEWNODE"
        THEN [mem |-> r.mem, err |-> "",
              o |-> [map_alloc(addr) EXCEPT !.root = r.node, !.count = o.count]]
        ELSE [mem |-> r.mem, err |-> "abort", o |-> o])

\* map_without: [mem, err, o]; err is "" (o is the new MapObject), "KeyError"
\* or "abort".
map_without(m, o, key, addr) ==
    With(map_node_without(m, o.root, 0, map_hash(key), key, 0), LAMBDA r :
        IF r.res = "W_EMPTY"
        THEN With(map_new(r.mem, addr), LAMBDA n : [mem |-> n.mem, err |-> "", o |-> n.o])
        ELSE IF r.res = "W_NOT_FOUND"
        THEN [mem |-> r.mem, err |-> "KeyError", o |-> o]
        ELSE IF r.res = "W_NEWNODE"
        THEN [mem |-> r.mem, err |-> "",
              o |-> [map_alloc(addr) EXCEPT !.root = r.node, !.count = o.count - 1]]
        ELSE [mem |-> r.mem, err |-> "abort", o |-> o])

(***************************************************************************)
(* Bulk update.  A source is a record: kind "map" is a Map object (the     *)
(* MapObject is map[1]), kind "dict" and kind "seq" carry their key/value  *)
(* pairs in items, in iteration order, and kind "none" is a NULL pointer.  *)
(* Each function returns [mem, root, count].                               *)
(***************************************************************************)
URet(m, root, count) == [mem |-> m, root |-> root, count |-> count]

\* The ValueError of map_node_update_from_seq for an element that is not a pair
\* (the ValueError of mapmut_check_finalized is "ValueError").
BadPair == "ValueError: 2 is required"

RECURSIVE map_node_update_from_map_loop(_, _, _, _, _)
map_node_update_from_map_loop(m, mutid, iter, last_root, last_count) ==
    With(map_iterator_next(m, iter), LAMBDA r :
        IF r.res # "I_ITEM" THEN URet(m, last_root, last_count)
        ELSE With(map_node_assoc(m, last_root, 0, map_hash(r.key), r.key, r.val, mutid),
                  LAMBDA a :
                 IF a.node = NULL THEN URet(a.mem, NULL, last_count)
                 ELSE map_node_update_from_map_loop(
                          a.mem, mutid, r.iter, a.node,
                          IF a.added_leaf # 0 THEN last_count + 1 ELSE last_count)))

map_node_update_from_map(m, mutid, map, root, count) ==
    map_node_update_from_map_loop(m, mutid, map_iterator_init(map.root), root, count)

RECURSIVE map_node_update_from_pairs(_, _, _, _, _, _, _)
\* The loop of map_node_update_from_dict and of map_node_update_from_seq over
\* the elements i..j of items, in order: the first half of the range, then,
\* unless an element of it failed (root NULL), the second half.
map_node_update_from_pairs(m, mutid, items, i, j, last_root, last_count) ==
    IF i > j THEN URet(m, last_root, last_count)
    ELSE IF i = j
    THEN IF Len(items[i]) # 2 THEN URet(m, NULL, last_count)
         ELSE With(map_node_assoc(m, last_root, 0, map_hash(items[i][1]),
                                  items[i][1], items[i][2], mutid), LAMBDA a :
                  IF a.node = NULL THEN URet(a.mem, NULL, last_count)
                  ELSE URet(a.mem, a.node,
                            IF a.added_leaf # 0 THEN last_count + 1 ELSE last_count))
    ELSE With(map_node_update_from_pairs(m, mutid, items, i, (i + j) \div 2,
                                         last_root, last_count), LAMBDA r :
             IF r.root = NULL THEN r
             ELSE map_node_update_from_pairs(r.mem, mutid, items, (i + j) \div 2 + 1, j,
                                             r.root, r.count))

map_node_update_from_dict(m, mutid, dct, root, count) ==
    map_node_update_from_pairs(m, mutid, dct.items, 1, Len(dct.items), root, count)

map_node_update_from_seq(m, mutid, seq, root, count) ==
    map_node_update_from_pairs(m, mutid, seq.items, 1, Len(seq.items), root, count)

map_node_update(m, mutid, src, root, count) ==
    IF src.kind = "map" THEN map_node_update_from_map(m, mutid, src.map[1], root, count)
    ELSE IF src.kind = "dict" THEN map_node_update_from_dict(m, mutid, src, root, count)
    ELSE map_node_update_from_seq(m, mutid, src, root, count)

\* map_update_inplace: [mem, o, err]; o is the updated object, or the object as
\* it was when the source failed (err is then the error raised).
map_update_inplace(m, mutid, o, src) ==
    With(map_node_update(m, mutid, src, o.root, o.count), LAMBDA r :
        IF r.root = NULL THEN [mem |-> r.mem, o |-> o, err |-> BadPair]
        ELSE [mem |-> r.mem, o |-> [o EXCEPT !.root = r.root, !.count = r.count],
              err |-> ""])
\* An update whose result keeps the count of o.
map_update_keep_count(m, mutid, o, src, addr) ==
    With(map_node_update(m, mutid, src, o.root, o.count), LAMBDA r :
        IF r.root = NULL THEN [mem |-> r.mem, o |-> o, err |-> BadPair]
        ELSE [mem |-> r.mem,
              o |-> [map_alloc(addr) EXCEPT !.root = r.root, !.count = o.count],
              err |-> ""])

\* map_update: [mem, o, err]; o is a new MapObject (at address addr), or the
\* object as it was when the source failed.
map_update(m, mutid, o, src, addr) ==
    With(map_node_update(m, mutid, src, o.root, o.count), LAMBDA r :
        IF r.root = NULL THEN [mem |-> r.mem, o |-> o, err |-> BadPair]
        ELSE [mem |-> r.mem,
              o |-> [map_alloc(addr) EXCEPT !.root = r.root, !.count = r.count],
              err |-> ""])

\* map_tp_new followed by map_tp_init(self, arg, kwds): [mem, o, ctr, err],
\* ctr being mutid_counter afterwards.  arg and kwds are sources; an
\* arg of kind "mut" is a MapMutation.
map_tp_init(m, addr, arg, kwds, ctr) ==
    LET mutid1 == IF arg.kind # "none" /\ arg.kind \notin {"map", "mut"} THEN ctr ELSE 0
        ctr1 == IF mutid1 # 0 THEN ctr + 1 ELSE ctr
        mutid2 == IF mutid1 = 0 THEN ctr1 ELSE mutid1
        ctr2 == IF mutid1 = 0 THEN ctr1 + 1 ELSE ctr1
    IN
    With(map_new(m, addr), LAMBDA self :
        IF arg.kind # "none" /\ arg.kind = "mut"
        THEN [mem |-> self.mem, o |-> self.o, ctr |-> ctr, err |-> "TypeError"]
        ELSE With(IF arg.kind = "none" THEN [mem |-> self.mem, o |-> self.o, err |-> ""]
                  ELSE IF arg.kind = "map"
                  THEN [mem |-> self.mem,
                        o |-> [self.o EXCEPT !.root = arg.map[1].root,
                                             !.count = arg.map[1].count,
                                             !.hash = arg.map[1].hash],
                        err |-> ""]
                  ELSE map_update_inplace(self.mem, mutid1, self.o, arg), LAMBDA s1 :
                 IF s1.err # ""
                 THEN [mem |-> s1.mem, o |-> s1.o, ctr |-> ctr1, err |-> s1.err]
                 ELSE IF kwds.kind = "none"
                 THEN [mem |-> s1.mem, o |-> s1.o, ctr |-> ctr1, err |-> ""]
                 ELSE With(map_update_inplace(s1.mem, mutid2, s1.o, kwds), LAMBDA s2 :
                          [mem |-> s2.mem, o |-> s2.o, ctr |-> ctr2, err |-> s2.err])))

\* map_py_update(self, arg, kwds): [mem, same, o, ctr, err].
map_py_update(m, self, arg, kwds, addr, ctr) ==
    LET mutid1 == IF arg.kind # "none" THEN ctr ELSE 0
        ctr1 == IF arg.kind # "none" THEN ctr + 1 ELSE ctr
        mutid2 == IF mutid1 = 0 THEN ctr1 ELSE mutid1
        ctr2 == IF mutid1 = 0 THEN ctr1 + 1 ELSE ctr1
    IN
    With(IF arg.kind # "none" THEN map_update(m, mutid1, self, arg, addr)
         ELSE [mem |-> m, o |-> self, err |-> ""], LAMBDA new :
        IF new.err # ""
        THEN [mem |-> new.mem, same |-> FALSE, o |-> self, ctr |-> ctr1, err |-> new.err]
        ELSE IF kwds.kind = "none"
        THEN [mem |-> new.mem, same |-> arg.kind = "none", o |-> new.o, ctr |-> ctr1,
              err |-> ""]
        ELSE With(map_update(new.mem, mutid2, new.o, kwds, addr), LAMBDA new2 :
                 [mem |-> new2.mem, same |-> FALSE, o |-> new2.o, ctr |-> ctr2,
                  err |-> new2.err]))

(***************************************************************************)
(* MapMutation.  Each function returns [mem, o, err]: the memory, the      *)
(* MapMutationObject afterwards, and "" or the error raised.               *)
(***************************************************************************)
MRet(m, o, err) == [mem |-> m, o |-> o, err |-> err]
\* A draft that gets the token 1 whatever the counter is.
map_py_mutate_token_one(self, addr, ctr) ==
    [addr |-> addr, root |-> self.root, count |-> self.count, mutid |-> 1]

map_py_mutate(self, addr, ctr) ==
    [addr |-> addr, root |-> self.root, count |-> self.count, mutid |-> ctr]
\* A check that finds no draft finalised.
check_finalized_never(o) == FALSE

mapmut_check_finalized(o) == o.mutid = 0
\* A delete that leaves the count of the draft as it was.
mapmut_delete_keep_count(m, o, key, key_hash) ==
    With(map_node_without(m, o.root, 0, key_hash, key, o.mutid), LAMBDA r :
        IF r.res = "W_EMPTY"
        THEN With(map_node_bitmap_new(r.mem, 0, o.mutid), LAMBDA n :
                 MRet(n.mem, [o EXCEPT !.root = n.node], ""))
        ELSE IF r.res = "W_NOT_FOUND" THEN MRet(r.mem, o, "KeyError")
        ELSE IF r.res = "W_NEWNODE" THEN MRet(r.mem, [o EXCEPT !.root = r.node], "")
        ELSE MRet(r.mem, o, "abort"))

mapmut_delete(m, o, key, key_hash) ==
    With(map_node_without(m, o.root, 0, key_hash, key, o.mutid), LAMBDA r :
        IF r.res = "W_EMPTY"
        THEN With(map_node_bitmap_new(r.mem, 0, o.mutid), LAMBDA n :
                 MRet(n.mem, [o EXCEPT !.root = n.node, !.count = 0], ""))
        ELSE IF r.res = "W_NOT_FOUND" THEN MRet(r.mem, o, "KeyError")
        ELSE IF r.res = "W_NEWNODE"
        THEN MRet(r.mem, [o EXCEPT !.root = r.node, !.count = @ - 1], "")
        ELSE MRet(r.mem, o, "abort"))
\* A set that counts a new binding whether or not a leaf was added.
mapmut_set_count_always(m, o, key, key_hash, val) ==
    With(map_node_assoc(m, o.root, 0, key_hash, key, val, o.mutid), LAMBDA r :
        MRet(r.mem, [o EXCEPT !.root = r.node, !.count = @ + 1], ""))

mapmut_set(m, o, key, key_hash, val) ==
    With(map_node_assoc(m, o.root, 0, key_hash, key, val, o.mutid), LAMBDA r :
        MRet(r.mem,
             [o EXCEPT !.root = r.node,
                       !.count = IF r.added_leaf # 0 THEN @ + 1 ELSE @],
             ""))
\* A finish that leaves the token of the draft.
mapmut_finish_keep_token(o) == o

mapmut_finish(o) == [o EXCEPT !.mutid = 0]

mapmut_py_set(m, o, key, val) ==
    IF mapmut_check_finalized(o) THEN MRet(m, o, "ValueError")
    ELSE mapmut_set(m, o, key, map_hash(key), val)
\* An item assignment that does not look at the token of the draft.
ass_sub_unchecked(m, o, key, val) ==
    IF val = NULL THEN mapmut_delete(m, o, key, map_hash(key))
    ELSE mapmut_set(m, o, key, map_hash(key), val)

\* mapmut_tp_ass_sub with val = NULL is "del o[key]".
mapmut_tp_ass_sub(m, o, key, val) ==
    IF mapmut_check_finalized(o) THEN MRet(m, o, "ValueError")
    ELSE IF val = NULL THEN mapmut_delete(m, o, key, map_hash(key))
    ELSE mapmut_set(m, o, key, map_hash(key), val)
\* A pop that raises KeyError for a missing key whether or not a default is
\* given.
mapmut_py_pop_no_default(m, o, key, deflt) ==
    IF mapmut_check_finalized(o)
    THEN [mem |-> m, o |-> o, err |-> "ValueError", val |-> NULL]
    ELSE With(map_hash(key), LAMBDA key_hash :
         With(map_node_find(m, o.root, 0, key_hash, key), LAMBDA f :
             IF ~f.found THEN [mem |-> m, o |-> o, err |-> "KeyError", val |-> NULL]
             ELSE With(mapmut_delete(m, o, key, key_hash), LAMBDA d :
                      [mem |-> d.mem, o |-> d.o, err |-> d.err,
                       val |-> IF d.err = "" THEN f.val ELSE NULL])))

\* mapmut_py_pop: [mem, o, err, val]; deflt is NULL when no default is given.
mapmut_py_pop(m, o, key, deflt) ==
    LET not_found == IF deflt # NULL
                     THEN [mem |-> m, o |-> o, err |-> "", val |-> deflt]
                     ELSE [mem |-> m, o |-> o, err |-> "KeyError", val |-> NULL]
    IN IF mapmut_check_finalized(o)
       THEN [mem |-> m, o |-> o, err |-> "ValueError", val |-> NULL]
       ELSE IF o.count = 0 THEN not_found
       ELSE With(map_hash(key), LAMBDA key_hash :
            With(map_node_find(m, o.root, 0, key_hash, key), LAMBDA f :
                IF ~f.found THEN not_found
                ELSE With(mapmut_delete(m, o, key, key_hash), LAMBDA d :
                         [mem |-> d.mem, o |-> d.o, err |-> d.err,
                          val |-> IF d.err = "" THEN f.val ELSE NULL])))

mapmut_py_update(m, self, arg, kwds) ==
    IF mapmut_check_finalized(self) THEN MRet(m, self, "ValueError")
    ELSE With(IF arg.kind # "none" THEN map_update_inplace(m, self.mutid, self, arg)
              ELSE [mem |-> m, o |-> self, err |-> ""], LAMBDA s1 :
             IF s1.err # "" THEN MRet(s1.mem, s1.o, s1.err)
             ELSE IF kwds.kind # "none"
             THEN With(map_update_inplace(s1.mem, self.mutid, s1.o, kwds), LAMBDA s2 :
                      MRet(s2.mem, s2.o, s2.err))
             ELSE MRet(s1.mem, s1.o, ""))

\* map_py_get(self, key, def): the value found, or def (NULL stands for the
\* None returned when no default is given).
map_py_get(m, self, key, def) ==
    With(map_find(m, self, key), LAMBDA f : IF f.found THEN f.val ELSE def)

\* map_tp_contains: 1 or 0.
map_tp_contains(m, self, key) == IF map_find(m, self, key).found THEN 1 ELSE 0

\* map_tp_subscript: [val, err].
map_tp_subscript(m, self, key) ==
    With(map_find(m, self, key), LAMBDA f :
        IF f.found THEN [val |-> f.val, err |-> ""]
        ELSE [val |-> NULL, err |-> "KeyError"])

map_tp_len(self) == map_len(self)

\* mapmut_tp_richcompare(v, w, Py_EQ) for two MapMutation objects.
mapmut_tp_richcompare(m, v, w) == map_eq(m, v, w)

mapmut_py_enter(self) == self

\* mapmut_py_exit: [o, res]: the draft afterwards and the value returned.
mapmut_py_exit(self) == [o |-> mapmut_finish(self), res |-> Py_False]
\* A finish that returns the Map and leaves the draft as it is.
mapmut_py_finish_live(self, addr) ==
    [d |-> self,
     o |-> [map_alloc(addr) EXCEPT !.root = self.root, !.count = self.count]]

\* mapmut_py_finish: [d, o]: the draft afterwards and the new MapObject.
mapmut_py_finish(self, addr) ==
    [d |-> mapmut_finish(self),
     o |-> [map_alloc(addr) EXCEPT !.root = self.root, !.count = self.count]]

(***************************************************************************)
(* Reference counting: a node is freed when nothing refers to it any more. *)
(* Collect keeps the nodes reachable from the live objects and from        *)
(* _empty_bitmap_node, and renumbers them in order.                        *)
(***************************************************************************)
Children(m, n) ==
    LET s == m.heap[n]
    IN IF s.type = "Bitmap"
       THEN {At(s.array, i + 1) :
                 i \in {j \in 0..(Len(s.array) - 1) : j % 2 = 0 /\ At(s.array, j) = NULL}}
            \ {NULL}
       ELSE IF s.type = "Array"
       THEN {s.array[i] : i \in 1..Len(s.array)} \ {NULL}
       ELSE {}

RECURSIVE Reach(_, _, _)
Reach(m, todo, seen) ==
    IF todo = {} THEN seen
    ELSE With(CHOOSE x \in todo : TRUE, LAMBDA n :
             Reach(m, (todo \cup Children(m, n)) \ (seen \cup {n}), seen \cup {n}))

Roots(m, mp, mu) ==
    ({m.empty} \cup {mp[i].root : i \in 1..Len(mp)} \cup {mu[i].root : i \in 1..Len(mu)})
    \ {NULL}

\* The addresses of S among 1..n, in increasing order, before acc.
RECURSIVE Sorted(_, _, _)
Sorted(S, n, acc) ==
    IF n = 0 THEN acc
    ELSE IF n \in S THEN Sorted(S, n - 1, <<n>> \o acc)
    ELSE Sorted(S, n - 1, acc)

Collect(m, mp, mu) ==
    With(Reach(m, Roots(m, mp, mu), {}), LAMBDA live :
    With(Sorted(live, Len(m.heap), <<>>), LAMBDA order :
    With(Tuple([n \in 1..Len(m.heap) |-> Cardinality({x \in live : x <= n})]),
         LAMBDA rank :
    LET to(n) == IF n = NULL THEN NULL ELSE rank[n]
        move(s) ==
            IF s.type = "Bitmap"
            THEN [s EXCEPT !.array =
                     Tuple([i \in 1..Len(s.array) |->
                               IF i % 2 = 0 /\ s.array[i - 1] = NULL
                               THEN to(s.array[i]) ELSE s.array[i]])]
            ELSE IF s.type = "Array"
            THEN [s EXCEPT !.array = Tuple([i \in 1..Len(s.array) |-> to(s.array[i])])]
            ELSE s
    IN [mem |-> [heap |-> Tuple([i \in 1..Len(order) |-> move(m.heap[order[i]])]),
                 empty |-> to(m.empty)],
        maps |-> Tuple([i \in 1..Len(mp) |-> [mp[i] EXCEPT !.root = to(@)]]),
        muts |-> Tuple([i \in 1..Len(mu) |-> [mu[i] EXCEPT !.root = to(@)]])])))

(***************************************************************************)
(* Inputs of the public calls.                                             *)
(***************************************************************************)
Values == {1, 2}
OpKeys == {1, 17, 18, 19}

Pairs(keys, v) == Tuple([i \in 1..Len(keys) |-> <<keys[i], v>>])
NoArg == [kind |-> "none", name |-> "none", addr |-> 0, map |-> <<>>, items |-> <<>>]
Seq16 == [NoArg EXCEPT !.kind = "seq", !.name = "Seq16",
                       !.items = Pairs(Tuple([i \in 1..16 |-> i]), 1)]
Seq17 == [NoArg EXCEPT !.kind = "seq", !.name = "Seq17",
                       !.items = Pairs(Tuple([i \in 1..17 |-> i]), 1)]
SeqUpd == [NoArg EXCEPT !.kind = "seq", !.name = "SeqUpd",
                        !.items = <<<<18, 1>>, <<19, 2>>, <<18, 2>>>>]
Kw18 == [NoArg EXCEPT !.kind = "dict", !.name = "Kw18", !.items = <<<<18, 2>>>>]
\* Keys 6 and 20, whose hashes differ in the last 5-bit index only.
Seq620 == [NoArg EXCEPT !.kind = "seq", !.name = "Seq620",
                        !.items = <<<<6, 1>>, <<20, 1>>>>]
\* A sequence whose second element is not a pair.
SeqBad == [NoArg EXCEPT !.kind = "seq", !.name = "SeqBad",
                        !.items = <<<<18, 1>>, <<19>>>>]

\* The Map maps[i], and the draft muts[i], as an argument.
MapSrc(i) == [NoArg EXCEPT !.kind = "map", !.name = "map", !.addr = i, !.map = <<maps[i]>>]
MutSrc(i) == [NoArg EXCEPT !.kind = "mut", !.name = "mut", !.addr = 0 - i, !.map = <<muts[i]>>]

(***************************************************************************)
(* The state machine: one action per public call.                          *)
(***************************************************************************)
Call(op, obj, key, val, arg, kwds, res, err) ==
    [op |-> op, obj |-> obj, key |-> key, val |-> val,
     arg |-> arg.name, argmap |-> arg.addr, kwds |-> kwds.name,
     res |-> res, err |-> err]

Origin(op, src, key, val, arg, kwds) ==
    [op |-> op, src |-> src, key |-> key, val |-> val,
     arg |-> arg.name, argmap |-> arg.addr, kwds |-> kwds.name]

\* The bindings of a Map or of a draft, as find reports them: NULL for a key
\* that is not found.
Bindings(m, o) ==
    Tuple([k \in AllKeys |->
              With(map_find(m, o, k), LAMBDA f : IF f.found THEN f.val ELSE NULL)])

\* What a program can observe of a Map: len(o), o.get(k) for every key k, and
\* the sequence list(o.items()).
Observable(m, o) ==
    [len |-> map_len(o), find |-> Bindings(m, o),
     items |-> IterItems(m, map_iterator_init(o.root))]
\* mapmut_py_update(self, seq) for a sequence whose iterator calls
\* self.finish() when it is asked for the element j (for the end of the
\* iteration when j is Len(seq.items) + 1).  The token is read from self
\* before the loop; the loop of map_node_update_from_seq runs on its local
\* last_root and last_count; finish() sees the root and the count the draft
\* had when update was called, and clears the token of the draft; the
\* elements from j on are added with the token read before, and
\* map_update_inplace stores the root and the count of the loop in the draft.
\* [mem, o, err, fin, born]: fin is <<the MapObject of finish()>>, or <<>> when
\* finish() was not called, born is <<what it showed when finish() returned>>.
mapmut_py_update_finish(m, self, seq, j, addr) ==
    IF mapmut_check_finalized(self)
    THEN [mem |-> m, o |-> self, err |-> "ValueError", fin |-> <<>>, born |-> <<>>]
    ELSE With(map_node_update_from_pairs(m, self.mutid, seq.items, 1, j - 1,
                                         self.root, self.count), LAMBDA r1 :
         IF r1.root = NULL
         THEN [mem |-> r1.mem, o |-> self, err |-> BadPair, fin |-> <<>>, born |-> <<>>]
         ELSE With(mapmut_py_finish(self, addr), LAMBDA f :
              With(Observable(r1.mem, f.o), LAMBDA born :
              With(map_node_update_from_pairs(r1.mem, self.mutid, seq.items, j,
                                              Len(seq.items), r1.root, r1.count),
                   LAMBDA r2 :
                  IF r2.root = NULL
                  THEN [mem |-> r2.mem, o |-> f.d, err |-> BadPair,
                        fin |-> <<f.o>>, born |-> <<born>>]
                  ELSE [mem |-> r2.mem,
                        o |-> [f.d EXCEPT !.root = r2.root, !.count = r2.count],
                        err |-> "", fin |-> <<f.o>>, born |-> <<born>>]))))

\* The new MapObject o with the record of where it comes from and of the
\* bindings it was created with.
Created(m, o, origin) == [o EXCEPT !.origin = origin, !.born = Observable(m, o)]

\* The state after a call, freed nodes collected.
Return(m, mp, mu, ctr, call) ==
    With(mp, LAMBDA mp1 :
    With(mu, LAMBDA mu1 :
    With(Collect(m, mp1, mu1), LAMBDA c :
        [mem |-> c.mem, maps |-> c.maps, muts |-> c.muts,
         mutid_counter |-> ctr, last |-> call])))

\* The call leaves the program in the state st.
Becomes(st) ==
    /\ mem' = st.mem
    /\ maps' = st.maps
    /\ muts' = st.muts
    /\ mutid_counter' = st.mutid_counter
    /\ last' = st.last

Init ==
    /\ mem = [heap |-> <<>>, empty |-> NULL]
    /\ maps = <<>>
    /\ muts = <<>>
    /\ mutid_counter = 1
    /\ last = Call("none", 0, NULL, NULL, NoArg, NoArg, 0, "")

\* Map(arg, **kwds)
DoMapNew(arg, kwds) ==
    With(Len(maps) + 1, LAMBDA addr :
    With(map_tp_init(mem, addr, arg, kwds, mutid_counter), LAMBDA r :
        IF r.err # ""
        THEN Return(r.mem, maps, muts, r.ctr,
                    Call("new", 0, NULL, NULL, arg, kwds, 0, r.err))
        ELSE Return(r.mem,
                    Append(maps, Created(r.mem, r.o,
                                         Origin("new", arg.addr, NULL, NULL, arg, kwds))),
                    muts, r.ctr,
                    Call("new", 0, NULL, NULL, arg, kwds, addr, ""))))

MapNew(arg, kwds) ==
    /\ Len(maps) < MaxMaps
    /\ \E st \in {DoMapNew(arg, kwds)} : Becomes(st)

\* self.set(key, val)
map_py_set(self, key, val) ==
    With(Len(maps) + 1, LAMBDA addr :
    With(map_assoc(mem, maps[self], key, val, addr), LAMBDA r :
        Return(r.mem,
               IF r.same THEN maps
               ELSE Append(maps, Created(r.mem, r.o,
                                         Origin("set", self, key, val, NoArg, NoArg))),
               muts, mutid_counter,
               Call("set", self, key, val, NoArg, NoArg,
                    IF r.same THEN self ELSE addr, ""))))

MapSet(self, key, val) ==
    /\ Len(maps) < MaxMaps
    /\ \E st \in {map_py_set(self, key, val)} : Becomes(st)

\* self.delete(key)
map_py_delete(self, key) ==
    With(Len(maps) + 1, LAMBDA addr :
    With(map_without(mem, maps[self], key, addr), LAMBDA r :
        Return(r.mem,
               IF r.err # "" THEN maps
               ELSE Append(maps, Created(r.mem, r.o,
                                         Origin("delete", self, key, NULL, NoArg, NoArg))),
               muts, mutid_counter,
               Call("delete", self, key, NULL, NoArg, NoArg,
                    IF r.err # "" THEN 0 ELSE addr, r.err))))

MapDelete(self, key) ==
    /\ Len(maps) < MaxMaps
    /\ \E st \in {map_py_delete(self, key)} : Becomes(st)

\* self.update(arg, **kwds)
DoMapUpdate(self, arg, kwds) ==
    With(Len(maps) + 1, LAMBDA addr :
    With(map_py_update(mem, maps[self], arg, kwds, addr, mutid_counter), LAMBDA r :
        Return(r.mem,
               IF r.same \/ r.err # "" THEN maps
               ELSE Append(maps, Created(r.mem, r.o,
                                         Origin("update", self, NULL, NULL, arg, kwds))),
               muts, r.ctr,
               Call("update", self, NULL, NULL, arg, kwds,
                    IF r.err # "" THEN 0 ELSE IF r.same THEN self ELSE addr, r.err))))

MapUpdate(self, arg, kwds) ==
    /\ Len(maps) < MaxMaps
    /\ \E st \in {DoMapUpdate(self, arg, kwds)} : Becomes(st)

\* hash(self); the value returned is the one left in self->h_hash.
DoMapHash(self) ==
    LET h == map_py_hash(mem, maps[self])
    IN Return(mem, [maps EXCEPT ![self].hash = h], muts, mutid_counter,
              Call("hash", self, NULL, NULL, NoArg, NoArg, self, ""))

MapHash(self) == \E st \in {DoMapHash(self)} : Becomes(st)

\* The reference dictionary of a draft after dict.update with a source.
RECURSIVE DictUpdatePairs(_, _, _)
DictUpdatePairs(d, items, i) ==
    IF i > Len(items) THEN d
    ELSE DictUpdatePairs([d EXCEPT ![items[i][1]] = items[i][2]], items, i + 1)

DictUpdate(m, d, src) ==
    IF src.kind = "none" THEN d
    ELSE IF src.kind = "map"
    THEN With(Bindings(m, src.map[1]), LAMBDA b :
             Tuple([k \in AllKeys |-> IF b[k] # NULL THEN b[k] ELSE d[k]]))
    ELSE DictUpdatePairs(d, src.items, 1)

\* self.mutate()
DoMapMutate(self) ==
    With(0 - (Len(muts) + 1), LAMBDA addr :
    With(map_py_mutate(maps[self], addr, mutid_counter), LAMBDA o :
        Return(mem, maps,
               Append(muts, [addr |-> o.addr, root |-> o.root, count |-> o.count,
                             mutid |-> o.mutid, src |-> self,
                             ref |-> Bindings(mem, maps[self]), ops |-> 0,
                             scope |-> FALSE]),
               mutid_counter + 1,
               Call("mutate", self, NULL, NULL, NoArg, NoArg, addr, ""))))

MapMutate(self) ==
    /\ Len(muts) < MaxMuts
    /\ \E st \in {DoMapMutate(self)} : Becomes(st)

RECURSIVE SumOps(_, _)
SumOps(mu, i) == IF i > Len(mu) THEN 0 ELSE mu[i].ops + SumOps(mu, i + 1)

\* The number of calls made on drafts so far.
MutOps == SumOps(muts, 1)

\* The drafts after a call on the draft d that left it as r.o, its reference
\* dictionary being ref when the call succeeded.
Draft(d, r, ref) ==
    [muts EXCEPT ![d] = [r.o EXCEPT !.ops = @ + 1,
                                    !.ref = IF r.err = "" THEN ref ELSE @]]

\* d.set(key, val)
DoMutSet(d, key, val) ==
    With(mapmut_py_set(mem, muts[d], key, val), LAMBDA r :
        Return(r.mem, maps, Draft(d, r, [muts[d].ref EXCEPT ![key] = val]),
               mutid_counter,
               Call("mut_set", 0 - d, key, val, NoArg, NoArg, 0, r.err)))

MutSet(d, key, val) ==
    \E st \in {DoMutSet(d, key, val)} : Becomes(st)

\* del d[key]
DoMutDelete(d, key) ==
    With(mapmut_tp_ass_sub(mem, muts[d], key, NULL), LAMBDA r :
        Return(r.mem, maps, Draft(d, r, [muts[d].ref EXCEPT ![key] = NULL]),
               mutid_counter,
               Call("mut_delete", 0 - d, key, NULL, NoArg, NoArg, 0, r.err)))

MutDelete(d, key) ==
    \E st \in {DoMutDelete(d, key)} : Becomes(st)

\* d.pop(key) and d.pop(key, deflt)
DoMutPop(d, key, deflt) ==
    With(mapmut_py_pop(mem, muts[d], key, deflt), LAMBDA r :
        Return(r.mem, maps, Draft(d, r, [muts[d].ref EXCEPT ![key] = NULL]),
               mutid_counter,
               Call("mut_pop", 0 - d, key, deflt, NoArg, NoArg, r.val, r.err)))

MutPop(d, key, deflt) ==
    \E st \in {DoMutPop(d, key, deflt)} : Becomes(st)

\* d.update(arg, **kwds)
DoMutUpdate(d, arg, kwds) ==
    With(mapmut_py_update(mem, muts[d], arg, kwds), LAMBDA r :
        Return(r.mem, maps,
               Draft(d, r, DictUpdate(mem, DictUpdate(mem, muts[d].ref, arg), kwds)),
               mutid_counter,
               Call("mut_update", 0 - d, NULL, NULL, arg, kwds, 0, r.err)))

MutUpdate(d, arg, kwds) ==
    \E st \in {DoMutUpdate(d, arg, kwds)} : Becomes(st)

\* d.finish()
DoMutFinish(d) ==
    With(Len(maps) + 1, LAMBDA addr :
    With(mapmut_py_finish(muts[d], addr), LAMBDA r :
        Return(mem,
               Append(maps, Created(mem, r.o,
                                    Origin("finish", 0 - d, NULL, NULL, NoArg, NoArg))),
               [muts EXCEPT ![d] = r.d], mutid_counter,
               Call("finish", 0 - d, NULL, NULL, NoArg, NoArg, addr, ""))))

MutFinish(d) ==
    /\ Len(maps) < MaxMaps
    /\ \E st \in {DoMutFinish(d)} : Becomes(st)

\* d[key] = val
DoMutSetItem(d, key, val) ==
    With(mapmut_tp_ass_sub(mem, muts[d], key, val), LAMBDA r :
        Return(r.mem, maps, Draft(d, r, [muts[d].ref EXCEPT ![key] = val]),
               mutid_counter,
               Call("mut_setitem", 0 - d, key, val, NoArg, NoArg, 0, r.err)))

MutSetItem(d, key, val) ==
    \E st \in {DoMutSetItem(d, key, val)} : Becomes(st)

\* A call on the draft d that returns res or raises err and changes nothing.
Read(op, d, key, res, err) ==
    Return(mem, maps, muts, mutid_counter,
           Call(op, 0 - d, key, NULL, NoArg, NoArg, res, err))

\* d.get(key)
MutGet(d, key) ==
    \E st \in {Read("mut_get", d, key, map_py_get(mem, muts[d], key, NULL), "")} :
        Becomes(st)

\* key in d
MutContains(d, key) ==
    \E st \in {Read("mut_contains", d, key, map_tp_contains(mem, muts[d], key), "")} :
        Becomes(st)

\* d[key]
MutSubscript(d, key) ==
    \E st \in {With(map_tp_subscript(mem, muts[d], key), LAMBDA r :
                   Read("mut_subscript", d, key, r.val, r.err))} :
        Becomes(st)

\* len(d)
MutLen(d) ==
    \E st \in {Read("mut_len", d, NULL, map_tp_len(muts[d]), "")} : Becomes(st)

\* d == e, for two drafts
MutEq(d, e) ==
    \E st \in {Read("mut_eq", d, e,
                    IF mapmut_tp_richcompare(mem, muts[d], muts[e]) THEN 1 ELSE 0, "")} :
        Becomes(st)

\* with d: the block is entered.
MutEnter(d) ==
    /\ ~muts[d].scope
    /\ \E st \in {Return(mem, maps,
                         [muts EXCEPT ![d] = [mapmut_py_enter(muts[d])
                                                  EXCEPT !.scope = TRUE]],
                         mutid_counter,
                         Call("enter", 0 - d, NULL, NULL, NoArg, NoArg, 0 - d, ""))} :
           Becomes(st)

\* The with block of d is left, normally (exc = NULL) or by an error (exc # NULL):
\* d.__exit__(exc); the call returns res, and a true value would suppress the
\* error.
MutExit(d, exc) ==
    /\ muts[d].scope
    /\ \E st \in {With(mapmut_py_exit(muts[d]), LAMBDA r :
                      Return(mem, maps,
                             [muts EXCEPT ![d] = [r.o EXCEPT !.scope = FALSE]],
                             mutid_counter,
                             Call("exit", 0 - d, NULL, exc, NoArg, NoArg, r.res, "")))} :
           Becomes(st)

(***************************************************************************)
(* The next-state relations.  Next is the Map API on Maps of up to 19      *)
(* keys; NextHash adds hash(); NextMut and NextDraft add the drafts and    *)
(* NextFin the whole life of one draft, with fewer inputs per call.        *)
(***************************************************************************)
AllMaps == {MapSrc(i) : i \in 1..Len(maps)}
AllMuts == {MutSrc(i) : i \in 1..Len(muts)}

Next ==
    \/ \E arg \in {NoArg, Seq16, Seq17} \cup AllMaps, kwds \in {NoArg, Kw18} :
           MapNew(arg, kwds)
    \/ \E self \in 1..Len(maps), key \in OpKeys, val \in Values : MapSet(self, key, val)
    \/ \E self \in 1..Len(maps), key \in OpKeys : MapDelete(self, key)
    \/ \E self \in 1..Len(maps), arg \in {NoArg, SeqUpd} \cup AllMaps,
          kwds \in {NoArg, Kw18} :
           MapUpdate(self, arg, kwds)

Spec == Init /\ [][Next]_vars

HashKeys == {18, 19}

NextHash ==
    \/ \E arg \in {NoArg} \cup AllMaps, kwds \in {NoArg, Kw18} : MapNew(arg, kwds)
    \/ \E self \in 1..Len(maps), key \in HashKeys, val \in Values : MapSet(self, key, val)
    \/ \E self \in 1..Len(maps), key \in HashKeys : MapDelete(self, key)
    \/ \E self \in 1..Len(maps) : MapHash(self)

SpecHash == Init /\ [][NextHash]_vars

MutKeys == {17, 18, 19}
\* d.update(seq), the iterator of seq calling d.finish() at the element j
DoMutUpdateFinish(d, seq, j) ==
    With(Len(maps) + 1, LAMBDA addr :
    With(mapmut_py_update_finish(mem, muts[d], seq, j, addr), LAMBDA r :
        Return(r.mem,
               IF r.fin = <<>> THEN maps
               ELSE Append(maps, [r.fin[1] EXCEPT
                                      !.origin = Origin("finish", 0 - d, NULL, NULL,
                                                        NoArg, NoArg),
                                      !.born = r.born[1]]),
               Draft(d, r, DictUpdate(mem, muts[d].ref, seq)),
               mutid_counter,
               Call("mut_update_finish", 0 - d, j, NULL, seq, NoArg,
                    IF r.fin = <<>> THEN 0 ELSE addr, r.err))))

MutUpdateFinish(d, seq, j) ==
    /\ Len(maps) < MaxMaps
    /\ \E st \in {DoMutUpdateFinish(d, seq, j)} : Becomes(st)

MutPairs == {<<17, 1>>, <<18, 1>>, <<18, 2>>, <<19, 2>>}

\* The Maps a draft was started from.
Drafted == {muts[d].src : d \in 1..Len(muts)}

\* NextMut: one Map, up to MaxMuts drafts of it that see up to MaxMutOps calls
\* between them, and the Maps derived from it while it has a draft.
NextMut ==
    \/ maps = <<>> /\ \E arg \in {NoArg, Seq16} : MapNew(arg, NoArg)
    \/ \E self \in Drafted : MapSet(self, 1, 2)
    \/ \E self \in Drafted : MapDelete(self, 1)
    \/ \E self \in Drafted : MapUpdate(self, NoArg, Kw18)
    \/ maps # <<>> /\ MapMutate(1)
    \/ MutOps < MaxMutOps /\ \E d \in 1..Len(muts), key \in {1, 17} : MutSet(d, key, 2)
    \/ MutOps < MaxMutOps /\ \E d \in 1..Len(muts), key \in {1, 18} : MutDelete(d, key)
    \/ MutOps < MaxMutOps /\ \E d \in 1..Len(muts) : MutPop(d, 18, NULL)
    \/ MutOps < MaxMutOps /\ \E d \in 1..Len(muts) : MutUpdate(d, SeqUpd, NoArg)
    \/ \E d \in 1..Len(muts) : MutFinish(d)

SpecMut == Init /\ [][NextMut]_vars

\* NextDraft: one Map and one draft of it, which sees up to MaxDraftOps calls.
NextDraft ==
    \/ maps = <<>> /\ \E arg \in {NoArg, Seq16} : MapNew(arg, NoArg)
    \/ muts = <<>> /\ \E self \in 1..Len(maps) : MapMutate(self)
    \/ MutOps < MaxDraftOps /\ \E d \in 1..Len(muts), kv \in MutPairs : MutSet(d, kv[1], kv[2])
    \/ MutOps < MaxDraftOps /\ \E d \in 1..Len(muts), key \in MutKeys : MutDelete(d, key)
    \/ MutOps < MaxDraftOps /\ \E d \in 1..Len(muts), deflt \in {NULL, 1} : MutPop(d, 18, deflt)
    \/ Len(maps) = 1 /\ \E d \in 1..Len(muts) : MutFinish(d)

SpecDraft == Init /\ [][NextDraft]_vars

\* NextFin: one Map of 16 keys and one draft of it from mutate() to finish()
\* and beyond, inside and outside a with block; the draft sees up to MaxFinOps
\* mutating calls, some on a sequence with a bad element, and any reads.
NextFin ==
    \/ maps = <<>> /\ MapNew(Seq16, NoArg)
    \/ muts = <<>> /\ maps # <<>> /\ MapMutate(1)
    \/ maps # <<>> /\ \E key \in {1, 18} : MapDelete(1, key)
    \/ \E d \in 1..Len(muts) : MutEnter(d)
    \/ \E d \in 1..Len(muts), exc \in {NULL, 1} : MutExit(d, exc)
    \/ MutOps < MaxFinOps /\ \E d \in 1..Len(muts) : MutSet(d, 17, 2)
    \/ MutOps < MaxFinOps /\ \E d \in 1..Len(muts) : MutSetItem(d, 18, 1)
    \/ MutOps < MaxFinOps /\ \E d \in 1..Len(muts), key \in {1, 19} : MutDelete(d, key)
    \/ MutOps < MaxFinOps /\ \E d \in 1..Len(muts), deflt \in {NULL, 1} : MutPop(d, 18, deflt)
    \/ MutOps < MaxFinOps /\ \E d \in 1..Len(muts), arg \in {SeqUpd, SeqBad} :
           MutUpdate(d, arg, NoArg)
    \/ \E d \in 1..Len(muts) : MutGet(d, 18)
    \/ \E d \in 1..Len(muts) : MutContains(d, 18)
    \/ \E d \in 1..Len(muts) : MutSubscript(d, 18)
    \/ \E d \in 1..Len(muts) : MutLen(d)
    \/ \E d, e \in 1..Len(muts) : MutEq(d, e)
    \/ \E d \in 1..Len(muts) : MutFinish(d)

SpecFin == Init /\ [][NextFin]_vars
\* A sequence that gives key 1 a new value and adds key 18.
SeqRe == [NoArg EXCEPT !.kind = "seq", !.name = "SeqRe",
                       !.items = <<<<1, 2>>, <<18, 1>>>>]

\* NextReent: one Map, empty or of 16 keys, and one draft of it; the draft
\* sees up to MaxFinOps calls: set, update, and update on a sequence whose
\* iterator finishes the draft.
NextReent ==
    \/ maps = <<>> /\ \E arg \in {NoArg, Seq16} : MapNew(arg, NoArg)
    \/ muts = <<>> /\ maps # <<>> /\ MapMutate(1)
    \/ MutOps < MaxFinOps /\ \E d \in 1..Len(muts), kv \in {<<1, 2>>, <<17, 2>>} :
           MutSet(d, kv[1], kv[2])
    \/ MutOps < MaxFinOps /\ \E d \in 1..Len(muts) : MutUpdate(d, SeqRe, NoArg)
    \/ MutOps < MaxFinOps /\ \E d \in 1..Len(muts), j \in 1..(Len(SeqRe.items) + 1) :
           MutUpdateFinish(d, SeqRe, j)
    \/ \E d \in 1..Len(muts) : MutFinish(d)

SpecReent == Init /\ [][NextReent]_vars

\* SpecWrap: the calls of NextMut in a process that has handed out all tokens
\* but the last two.  mutid_counter is a uint64_t; the model holds it as the
\* integer that is congruent to it modulo 2^64 and nearest to 0, so that
\* 2^64 - 2 is -2 and mutid_counter++ is + 1 also when it wraps around to 0.
InitWrap ==
    /\ mem = [heap |-> <<>>, empty |-> NULL]
    /\ maps = <<>>
    /\ muts = <<>>
    /\ mutid_counter = 0 - 2
    /\ last = Call("none", 0, NULL, NULL, NoArg, NoArg, 0, "")

SpecWrap == InitWrap /\ [][NextMut]_vars

DeepKeys == {1, 6, 20, 21}

\* NextDeep: Maps and drafts whose keys agree in many 5-bit indices of their
\* hashes, so that the trees are deep (keys 1, 18, 19 and keys 6, 20, 21): a
\* chain of Maps, each made from the one before, and one draft of the first.
NextDeep ==
    \/ maps = <<>> /\ \E arg \in {NoArg, Seq620, SeqUpd} : MapNew(arg, NoArg)
    \/ maps # <<>> /\ \E key \in DeepKeys : MapSet(Len(maps), key, 1)
    \/ maps # <<>> /\ \E key \in {6, 20} : MapDelete(Len(maps), key)
    \/ maps # <<>> /\ muts = <<>> /\ MapMutate(1)
    \/ MutOps < MaxMutOps /\ \E d \in 1..Len(muts), key \in {20, 21} : MutSet(d, key, 2)
    \/ MutOps < MaxMutOps /\ \E d \in 1..Len(muts) : MutDelete(d, 6)
    \/ \E d \in 1..Len(muts) : MutFinish(d)

SpecDeep == Init /\ [][NextDeep]_vars

(***************************************************************************)
(* C1.  A Map never changes: whatever calls are made afterwards on Maps    *)
(* and on drafts, every Map has the length, the find results and the       *)
(* iteration sequence it was created with.                                 *)
(***************************************************************************)
Inv_C1 == \A i \in 1..Len(maps) : Observable(mem, maps[i]) = maps[i].born

\* One draft of a Map of 16 keys has replaced the value of key 1, a second
\* draft of the same Map has then deleted key 1, and the Map is as it was.
Wit_C1 ==
    /\ Len(muts) = 2
    /\ maps[1].count = 16 /\ maps[1].born.find[1] = 1
    /\ muts[1].ops = 1 /\ muts[1].count = 16 /\ muts[1].ref[1] = 2
    /\ muts[2].ops = 1 /\ muts[2].count = 15
    /\ last.op = "mut_delete"
    /\ Observable(mem, maps[1]) = maps[1].born

(***************************************************************************)
(* C2.  find after assoc: a Map made by M.set(k, v) binds k to v and binds *)
(* every other key to what M binds it to; when set returns M itself, M     *)
(* binds k to v.                                                           *)
(***************************************************************************)
Inv_C2 ==
    /\ \A i \in 1..Len(maps) :
           maps[i].origin.op = "set" =>
               Bindings(mem, maps[i]) =
                   [Bindings(mem, maps[maps[i].origin.src])
                        EXCEPT ![maps[i].origin.key] = maps[i].origin.val]
    /\ last.op = "set" => map_find(mem, maps[last.res], last.key).val = last.val

\* A value was replaced inside a Collision node below an Array root: the Map
\* of the 17 keys and of key 18 got key 19 (same 32-bit hash as 18) bound to
\* 1, and the result got it bound to 2.
Wit_C2 ==
    /\ Len(maps) = 3
    /\ maps[1].count = 18
    /\ maps[2].origin.op = "set" /\ maps[2].origin.src = 1 /\ maps[2].count = 19
    /\ maps[3].origin.op = "set" /\ maps[3].origin.src = 2 /\ maps[3].count = 19
    /\ maps[3].origin.key = 19 /\ maps[3].origin.val = 2
    /\ map_find(mem, maps[2], 19).val = 1
    /\ map_find(mem, maps[3], 19).val = 2
    /\ map_find(mem, maps[3], 18).val = 2
    /\ \E n \in 1..Len(mem.heap) : IS_COLLISION_NODE(mem, n)
    /\ IS_ARRAY_NODE(mem, maps[3].root)

(***************************************************************************)
(* C3.  A draft agrees with a reference dictionary: after every call, get  *)
(* and contains of every key and len are those of the dictionary that      *)
(* started with the bindings of the Map and saw the same set, delete and   *)
(* pop calls; the Map returned by finish holds the dictionary's bindings.  *)
(***************************************************************************)
RefLen(ref) == Cardinality({k \in AllKeys : ref[k] # NULL})

Inv_C3 ==
    /\ \A d \in 1..Len(muts) :
           /\ Bindings(mem, muts[d]) = muts[d].ref
           /\ \A k \in AllKeys : map_find(mem, muts[d], k).found = (muts[d].ref[k] # NULL)
           /\ map_len(muts[d]) = RefLen(muts[d].ref)
    /\ \A i \in 1..Len(maps) :
           maps[i].origin.op = "finish" =>
               /\ Bindings(mem, maps[i]) = muts[0 - maps[i].origin.src].ref
               /\ map_len(maps[i]) = RefLen(muts[0 - maps[i].origin.src].ref)

\* A draft of the Map of 16 keys saw four calls that left keys 18 and 19 (same
\* 32-bit hash) bound to 2 below an Array root and key 17 unbound, and was
\* then finished.
Wit_C3 ==
    /\ Len(maps) = 2 /\ Len(muts) = 1
    /\ maps[1].count = 16
    /\ muts[1].ops = 4
    /\ muts[1].ref[18] = 2 /\ muts[1].ref[19] = 2 /\ muts[1].ref[17] = NULL
    /\ last.op = "finish"
    /\ maps[2].origin.op = "finish"
    /\ maps[2].count = 18
    /\ IS_ARRAY_NODE(mem, maps[2].root)
    /\ Bindings(mem, maps[2]) = muts[1].ref

(***************************************************************************)
(* C4.  The count of every Map and of every draft is the number of leaf    *)
(* bindings reachable from its root; a Map made by set has one binding     *)
(* more than its source when the key was unbound there and as many         *)
(* otherwise, a Map made by delete has one less.                           *)
(***************************************************************************)
RECURSIVE LeafCount(_, _)
RECURSIVE LeafSum(_, _, _)
\* The leaf bindings in the entries i.. of the array of node n.
LeafSum(m, n, i) ==
    IF i > Len(m.heap[n].array) THEN 0
    ELSE IF m.heap[n].type = "Array"
    THEN (IF m.heap[n].array[i] = NULL THEN 0 ELSE LeafCount(m, m.heap[n].array[i]))
         + LeafSum(m, n, i + 1)
    ELSE (IF m.heap[n].type = "Bitmap" /\ m.heap[n].array[i] = NULL
          THEN LeafCount(m, m.heap[n].array[i + 1]) ELSE 1)
         + LeafSum(m, n, i + 2)

\* The leaf bindings below node n.
LeafCount(m, n) == LeafSum(m, n, 1)

Cex_C5 ==
    \A i, j \in 1..Len(maps) :
        map_eq(mem, maps[i], maps[j]) =>
            map_py_hash(mem, maps[i]) = map_py_hash(mem, maps[j])

(***************************************************************************)
(* C6.  M.set(k, v) returns M itself whenever M binds k to v already.      *)
(***************************************************************************)
Cex_C6 ==
    (/\ last.op = "set"
     /\ map_find(mem, maps[last.obj], last.key) = [found |-> TRUE, val |-> last.val])
        => last.res = last.obj

\* The Maps maps[j] = maps[i].delete(k), maps[i] = maps[h].set(k, v).
SetThenDelete(h, i, j) ==
    /\ maps[i].origin.op = "set" /\ maps[i].origin.src = h
    /\ maps[j].origin.op = "delete" /\ maps[j].origin.src = i
    /\ maps[j].origin.key = maps[i].origin.key

(***************************************************************************)
(* C7.  For a key k that M does not bind, M.set(k, v).delete(k) compares   *)
(* equal to M, with the length and the bindings of M.                      *)
(***************************************************************************)
Inv_C7 ==
    \A h, i, j \in 1..Len(maps) :
        (SetThenDelete(h, i, j) /\ ~map_find(mem, maps[h], maps[i].origin.key).found)
            => /\ map_eq(mem, maps[j], maps[h])
               /\ map_eq(mem, maps[h], maps[j])
               /\ map_len(maps[j]) = map_len(maps[h])
               /\ Bindings(mem, maps[j]) = Bindings(mem, maps[h])

\* Key 17 was set on the Map of 16 keys (a Bitmap root), which gave an Array
\* root, and deleted again: the result has an Array root still and equals the
\* first Map.
Wit_C7 ==
    /\ Len(maps) = 3
    /\ SetThenDelete(1, 2, 3)
    /\ maps[2].origin.key = 17
    /\ maps[1].count = 16 /\ maps[2].count = 17 /\ maps[3].count = 16
    /\ IS_BITMAP_NODE(mem, maps[1].root)
    /\ IS_ARRAY_NODE(mem, maps[3].root)
    /\ map_eq(mem, maps[3], maps[1])

(***************************************************************************)
(* C8.  As stated: for a key k that M binds, M.set(k, v).delete(k) is      *)
(* equivalent to M.set(k, v0) with v0 the value M binds k to, that is, to  *)
(* M.                                                                      *)
(***************************************************************************)
Cex_C8 ==
    \A h, i, j \in 1..Len(maps) :
        (SetThenDelete(h, i, j) /\ map_find(mem, maps[h], maps[i].origin.key).found)
            => With(map_assoc(mem, maps[h], maps[i].origin.key,
                              map_find(mem, maps[h], maps[i].origin.key).val, 0),
                    LAMBDA a : map_eq(a.mem, maps[j], a.o))

\* C8, amended: for a key k that M binds, M.set(k, v).delete(k) is equivalent
\* to M.delete(k): k is unbound, every other key is bound as in M, and the
\* length is len(M) - 1.
Inv_C8 ==
    \A h, i, j \in 1..Len(maps) :
        (SetThenDelete(h, i, j) /\ map_find(mem, maps[h], maps[i].origin.key).found)
            => /\ With(map_without(mem, maps[h], maps[i].origin.key, 0),
                       LAMBDA w : w.err = "" /\ map_eq(w.mem, maps[j], w.o))
               /\ Bindings(mem, maps[j]) =
                      [Bindings(mem, maps[h]) EXCEPT ![maps[i].origin.key] = NULL]
               /\ map_len(maps[j]) = map_len(maps[h]) - 1

\* Key 1 of the Map of 17 keys was set to 2 and then deleted: 16 keys are
\* left.
Wit_C8 ==
    /\ Len(maps) = 3
    /\ SetThenDelete(1, 2, 3)
    /\ maps[2].origin.key = 1 /\ maps[2].origin.val = 2
    /\ maps[1].count = 17 /\ maps[2].count = 17 /\ maps[3].count = 16
    /\ ~map_find(mem, maps[3], 1).found

(***************************************************************************)
(* C9.  The last write wins: M.set(k, v1).set(k, v2) compares equal to     *)
(* M.set(k, v2), and has the length of M.set(k, v1).                       *)
(***************************************************************************)
Inv_C9 ==
    \A i \in 1..Len(maps) :
        maps[i].origin.op = "set" =>
            \A v2 \in Values :
                With(map_assoc(mem, maps[i], maps[i].origin.key, v2, 98), LAMBDA a :
                With(map_assoc(a.mem, maps[maps[i].origin.src], maps[i].origin.key, v2, 99),
                     LAMBDA b :
                    /\ map_eq(b.mem, a.o, b.o)
                    /\ map_eq(b.mem, b.o, a.o)
                    /\ map_len(a.o) = map_len(maps[i])
                    /\ map_find(b.mem, a.o, maps[i].origin.key).val = v2))

\* Key 1 of the Map of 17 keys (an Array root) was set to 2, and key 1 of the
\* result to 1 again: the last Map equals the first.
Wit_C9 ==
    /\ Len(maps) = 3
    /\ maps[1].count = 17 /\ IS_ARRAY_NODE(mem, maps[1].root)
    /\ maps[2].origin.op = "set" /\ maps[2].origin.src = 1
    /\ maps[2].origin.key = 1 /\ maps[2].origin.val = 2
    /\ maps[3].origin.op = "set" /\ maps[3].origin.src = 2
    /\ maps[3].origin.key = 1 /\ maps[3].origin.val = 1
    /\ map_len(maps[3]) = 17
    /\ map_eq(mem, maps[3], maps[1])

(***************************************************************************)
(* C10.  M == N iff M and N have the same length and every binding of M is *)
(* a binding of N; the comparison is symmetric and depends on the bindings *)
(* only, not on the shape of the trees.                                    *)
(***************************************************************************)
Inv_C10 ==
    \A i, j \in 1..Len(maps) :
        /\ map_eq(mem, maps[i], maps[j]) =
               (/\ map_len(maps[i]) = map_len(maps[j])
                /\ \A k \in AllKeys :
                       map_find(mem, maps[i], k).found =>
                           map_find(mem, maps[j], k) = map_find(mem, maps[i], k))
        /\ map_eq(mem, maps[i], maps[j]) = map_eq(mem, maps[j], maps[i])

\* The Map of 16 keys has a Bitmap root; the Map of 17 keys without key 17 has
\* an Array root; they compare equal.
Wit_C10 ==
    /\ Len(maps) = 3
    /\ maps[1].count = 16 /\ IS_BITMAP_NODE(mem, maps[1].root)
    /\ maps[2].count = 17
    /\ maps[3].origin.op = "delete" /\ maps[3].origin.src = 2 /\ maps[3].origin.key = 17
    /\ IS_ARRAY_NODE(mem, maps[3].root)
    /\ map_eq(mem, maps[1], maps[3]) /\ map_eq(mem, maps[3], maps[1])

(***************************************************************************)
(* C11.  Iterating a Map yields len(M) items, one for each binding and no  *)
(* key twice; an exhausted iterator reports the end again at every further *)
(* call.                                                                   *)
(***************************************************************************)
RECURSIVE IterEnd(_, _)
\* The first result of the iterator that is not an item.
IterEnd(m, iter) ==
    With(map_iterator_next(m, iter), LAMBDA r :
        IF r.res = "I_ITEM" THEN IterEnd(m, r.iter) ELSE r)

Act_C12 ==
    [][/\ (/\ last'.op = "delete"
           /\ ~map_find(mem, maps[last'.obj], last'.key).found)
              => /\ last'.err = "KeyError" /\ last'.res = 0
                 /\ Len(maps') = Len(maps)
                 /\ Bindings(mem', maps'[last'.obj]) = Bindings(mem, maps[last'.obj])
                 /\ map_len(maps'[last'.obj]) = map_len(maps[last'.obj])
       /\ (/\ last'.op \in {"mut_delete", "mut_pop"}
           /\ muts[0 - last'.obj].mutid # 0
           /\ ~map_find(mem, muts[0 - last'.obj], last'.key).found)
              => /\ IF last'.op = "mut_pop" /\ last'.val # NULL
                    THEN last'.err = "" /\ last'.res = last'.val
                    ELSE last'.err = "KeyError"
                 /\ Bindings(mem', muts'[0 - last'.obj]) =
                        Bindings(mem, muts[0 - last'.obj])
                 /\ map_len(muts'[0 - last'.obj]) = map_len(muts[0 - last'.obj])
                 /\ Len(maps') = Len(maps)]_vars

\* The first call on a draft of the Map of 16 keys was pop(18, 1): key 18 is
\* not bound, the call returned the default and the draft has its 16 keys.
Wit_C12 ==
    /\ Len(muts) = 1 /\ muts[1].ops = 1
    /\ last.op = "mut_pop" /\ last.key = 18 /\ last.val = 1
    /\ last.res = 1 /\ last.err = ""
    /\ muts[1].mutid # 0
    /\ muts[1].count = 16
    /\ ~map_find(mem, muts[1], 18).found

(***************************************************************************)
(* C13.  A finalised draft rejects mutation: set, item assignment, delete, *)
(* pop and update on a draft whose token is 0 raise the error of           *)
(* mapmut_check_finalized and change neither the draft nor any Map.        *)
(***************************************************************************)
MutatingOps == {"mut_set", "mut_setitem", "mut_delete", "mut_pop", "mut_update"}

Act_C13 ==
    [][(/\ last'.op \in MutatingOps
        /\ muts[0 - last'.obj].mutid = 0)
           => /\ last'.err = "ValueError"
              /\ Bindings(mem', muts'[0 - last'.obj]) = Bindings(mem, muts[0 - last'.obj])
              /\ map_len(muts'[0 - last'.obj]) = map_len(muts[0 - last'.obj])
              /\ muts'[0 - last'.obj].mutid = 0
              /\ Len(maps') = Len(maps)
              /\ \A i \in 1..Len(maps) :
                     Observable(mem', maps'[i]) = Observable(mem, maps[i])]_vars

\* The draft set key 17 and was finished into a Map of 17 keys; d[18] = 1 then
\* failed and the draft and the Map have their 17 keys.
Wit_C13 ==
    /\ Len(maps) = 2 /\ Len(muts) = 1
    /\ maps[2].origin.op = "finish" /\ maps[2].count = 17
    /\ last.op = "mut_setitem" /\ last.err = "ValueError"
    /\ muts[1].mutid = 0
    /\ muts[1].ops = 2 /\ muts[1].count = 17
    /\ ~map_find(mem, maps[2], 18).found
    /\ ~map_find(mem, muts[1], 18).found

(***************************************************************************)
(* C14.  As stated: every call on a finalised draft raises the error of    *)
(* mapmut_check_finalized: the mutating calls, and also get, contains,     *)
(* len, subscript, == and a further finish().                              *)
(***************************************************************************)
ReadOps == {"mut_get", "mut_contains", "mut_len", "mut_subscript", "mut_eq"}

Cex_C14 ==
    [][(/\ last'.op \in MutatingOps \cup ReadOps \cup {"finish"}
        /\ muts[0 - last'.obj].mutid = 0)
           => last'.err = "ValueError"]_vars

\* C14, amended: on a finalised draft the mutating calls raise the error of
\* mapmut_check_finalized; get, contains, len, subscript and == do not, they
\* answer from the bindings the draft has kept, and a further finish()
\* returns one more Map with those bindings.
Act_C14 ==
    [][(/\ last'.op \in MutatingOps \cup ReadOps \cup {"finish"}
        /\ muts[0 - last'.obj].mutid = 0) =>
           /\ last'.op \in MutatingOps => last'.err = "ValueError"
           /\ last'.op = "mut_get" =>
                  /\ last'.err = ""
                  /\ last'.res = Bindings(mem, muts[0 - last'.obj])[last'.key]
           /\ last'.op = "mut_contains" =>
                  /\ last'.err = ""
                  /\ (last'.res = 1) =
                         (Bindings(mem, muts[0 - last'.obj])[last'.key] # NULL)
           /\ last'.op = "mut_subscript" =>
                  IF Bindings(mem, muts[0 - last'.obj])[last'.key] # NULL
                  THEN /\ last'.err = ""
                       /\ last'.res = Bindings(mem, muts[0 - last'.obj])[last'.key]
                  ELSE last'.err = "KeyError"
           /\ last'.op = "mut_len" =>
                  last'.err = "" /\ last'.res = muts[0 - last'.obj].count
           /\ last'.op = "mut_eq" => last'.err = ""
           /\ last'.op = "finish" =>
                  /\ last'.err = ""
                  /\ Len(maps') = Len(maps) + 1
                  /\ Bindings(mem', maps'[last'.res]) =
                         Bindings(mem, muts[0 - last'.obj])
                  /\ map_len(maps'[last'.res]) = map_len(muts[0 - last'.obj])]_vars

\* The draft was finished twice: two Maps with its bindings.
Wit_C14 ==
    /\ Len(maps) = 3 /\ Len(muts) = 1
    /\ maps[2].origin.op = "finish" /\ maps[3].origin.op = "finish"
    /\ last.op = "finish" /\ last.res = 3 /\ last.err = ""
    /\ muts[1].mutid = 0
    /\ muts[1].ops = 2
    /\ Bindings(mem, maps[3]) = Bindings(mem, muts[1])
    /\ Bindings(mem, maps[2]) = Bindings(mem, muts[1])

(***************************************************************************)
(* C15.  Leaving the with block of a draft finalises it (token 0), on a    *)
(* normal exit and on an error, and the value __exit__ returns is false,   *)
(* so that the error is not suppressed; finish() inside the block returns  *)
(* the Map with the bindings of the draft.                                 *)
(***************************************************************************)
Inv_C15 ==
    /\ last.op = "exit" =>
           /\ muts[0 - last.obj].mutid = 0
           /\ last.res = Py_False
           /\ last.err = ""
    /\ (last.op = "finish" /\ muts[0 - last.obj].scope) =>
           /\ last.err = ""
           /\ Bindings(mem, maps[last.res]) = Bindings(mem, muts[0 - last.obj])
           /\ map_len(maps[last.res]) = map_len(muts[0 - last.obj])

\* The block of a draft that has seen two calls and no finish() is left by an
\* error: the draft is finalised.
Wit_C15 ==
    /\ Len(maps) = 1 /\ Len(muts) = 1
    /\ last.op = "exit" /\ last.val = 1 /\ last.res = Py_False
    /\ muts[1].ops = 2 /\ muts[1].count = 18
    /\ muts[1].mutid = 0
    /\ ~muts[1].scope

(***************************************************************************)
(* C19.  After a bulk update of a draft that failed at a later element,    *)
(* the length of the draft is the number of bindings reachable from its    *)
(* root.                                                                   *)
(***************************************************************************)
Cex_C19 ==
    (last.op = "mut_update" /\ last.err = BadPair)
        => muts[0 - last.obj].count = LeafCount(mem, muts[0 - last.obj].root)

(***************************************************************************)
(* C16.  M.update(src, **overlay) is the Map that M.mutate(), update with  *)
(* src and overlay, finish() gives: a later binding of a key wins, the     *)
(* length is the number of distinct keys, and M is as it was.              *)
(***************************************************************************)
\* The source a call was given, from the name (and, for a Map, the index)
\* recorded for it.
SourceNamed(name, addr) ==
    CASE name = "none" -> NoArg
      [] name = "Seq16" -> Seq16
      [] name = "Seq17" -> Seq17
      [] name = "SeqUpd" -> SeqUpd
      [] name = "SeqBad" -> SeqBad
      [] name = "Kw18" -> Kw18
      [] name = "map" -> MapSrc(addr)

Inv_C16 ==
    \A i \in 1..Len(maps) :
        maps[i].origin.op = "update" =>
            With(maps[maps[i].origin.src], LAMBDA M :
            With(SourceNamed(maps[i].origin.arg, maps[i].origin.argmap), LAMBDA src :
            With(SourceNamed(maps[i].origin.kwds, 0), LAMBDA overlay :
            With(mapmut_py_update(mem, map_py_mutate(M, -98, mutid_counter), src, overlay),
                 LAMBDA d :
            With(mapmut_py_finish(d.o, 99).o, LAMBDA F :
                /\ d.err = ""
                /\ map_eq(d.mem, maps[i], F) /\ map_eq(d.mem, F, maps[i])
                /\ map_len(maps[i]) = map_len(F)
                /\ Bindings(mem, maps[i]) =
                       DictUpdate(mem, DictUpdate(mem, Bindings(mem, M), src), overlay)
                /\ map_len(maps[i]) = RefLen(Bindings(mem, maps[i]))
                /\ Observable(mem, M) = M.born)))))

\* The Map of 17 keys was updated with the sequence (18, 1), (19, 2), (18, 2)
\* and the overlay 18 = 2: 19 keys, 18 and 19 bound to 2.
Wit_C16 ==
    /\ Len(maps) >= 2
    /\ maps[1].count = 17
    /\ maps[2].origin.op = "update" /\ maps[2].origin.src = 1
    /\ maps[2].origin.arg = "SeqUpd" /\ maps[2].origin.kwds = "Kw18"
    /\ maps[2].count = 19
    /\ map_find(mem, maps[2], 18).val = 2 /\ map_find(mem, maps[2], 19).val = 2
    /\ map_find(mem, maps[2], 17).val = 1
    /\ ~map_find(mem, maps[1], 18).found

(***************************************************************************)
(* C17.  The token of a live draft is on no node that a Map or another     *)
(* draft reaches, and a call on a draft changes no Map and no other draft: *)
(* the nodes it modifies in place are reachable from its own root only.    *)
(***************************************************************************)
\* The nodes reachable from the Maps and from the drafts other than d.
ForeignNodes(m, mp, mu, d) ==
    Reach(m, {mp[i].root : i \in 1..Len(mp)}
                 \cup {mu[e].root : e \in (1..Len(mu)) \ {d}}, {})

TokenOwned(m, mp, mu) ==
    \A d \in 1..Len(mu) :
        mu[d].mutid # 0 =>
            \A n \in ForeignNodes(m, mp, mu, d) : m.heap[n].mutid # mu[d].mutid

Act_C17 ==
    [][/\ TokenOwned(mem', maps', muts')
       /\ last'.op \in MutatingOps =>
              /\ \A i \in 1..Len(maps) :
                     Observable(mem', maps'[i]) = Observable(mem, maps[i])
              /\ \A e \in (1..Len(muts)) \ {0 - last'.obj} :
                     /\ Bindings(mem', muts'[e]) = Bindings(mem, muts[e])
                     /\ muts'[e].count = muts[e].count]_vars

\* Two live drafts of the Map of 16 keys have each changed a binding in nodes
\* that carry their own token.
Wit_C17 ==
    /\ Len(muts) = 2 /\ maps[1].count = 16
    /\ muts[1].mutid # 0 /\ muts[2].mutid # 0 /\ muts[1].mutid # muts[2].mutid
    /\ muts[1].ops = 1 /\ muts[2].ops = 1
    /\ mem.heap[muts[1].root].mutid = muts[1].mutid
    /\ mem.heap[muts[2].root].mutid = muts[2].mutid
    /\ muts[1].ref[1] = 2 /\ muts[2].ref[17] = 2
    /\ last.op = "mut_set"

Inv_C20 ==
    /\ \A n \in 1..Len(mem.heap) :
           IS_BITMAP_NODE(mem, n) =>
               \A c \in Children(mem, n) :
                   ~(/\ IS_BITMAP_NODE(mem, c)
                     /\ map_node_bitmap_count(mem, c) = 1
                     /\ At(mem.heap[c].array, 0) # NULL)
    /\ last.err # "abort"

\* Key 18 was deleted from a draft that held 18 and 19 in a Collision node
\* below Bitmap nodes: key 19 is left, as a leaf.
Wit_C20 ==
    /\ last.op = "mut_delete" /\ last.key = 18 /\ last.err = ""
    /\ muts[0 - last.obj].ops = 2
    /\ muts[0 - last.obj].count = 17
    /\ map_find(mem, muts[0 - last.obj], 19).found
    /\ map_find(mem, muts[0 - last.obj], 1).found
    /\ \A n \in Reach(mem, {muts[0 - last.obj].root}, {}) : ~IS_COLLISION_NODE(mem, n)

(***************************************************************************)
(* C21.  A Bitmap root grows into an Array root of 17 slots when a key for *)
(* a 17th distinct slot is set and stays a Bitmap below that; an Array     *)
(* root stays an Array while 16 slots or more remain and becomes a Bitmap  *)
(* node of 15 entries, the single leaves of its children inlined, when     *)
(* only 15 remain.                                                         *)
(***************************************************************************)
\* The root indices of the keys that o binds.
RootSlots(m, o) ==
    {map_mask(map_hash(k), 0) : k \in {x \in AllKeys : map_find(m, o, x).found}}

\* The entries of the Bitmap node n that are leaf bindings.
LeafEntries(m, n) ==
    {i \in 0..(map_node_bitmap_count(m, n) - 1) : At(m.heap[n].array, 2 * i) # NULL}

\* The slots of the Array node n that are not empty.
UsedSlots(m, n) ==
    {i \in 0..(HAMT_ARRAY_NODE_SIZE - 1) : At(m.heap[n].array, i) # NULL}

Inv_C21 ==
    \A i \in 1..Len(maps) :
        maps[i].origin.op \in {"set", "delete"} /\ maps[i].count > 0 =>
            With(maps[maps[i].origin.src].root, LAMBDA old :
            With(maps[i].root, LAMBDA new :
            With(Cardinality(RootSlots(mem, maps[i])), LAMBDA slots :
                /\ (IS_BITMAP_NODE(mem, old) /\ slots <= 16) =>
                       /\ IS_BITMAP_NODE(mem, new)
                       /\ map_node_bitmap_count(mem, new) = slots
                /\ (IS_BITMAP_NODE(mem, old) /\ slots = 17) =>
                       /\ IS_ARRAY_NODE(mem, new)
                       /\ mem.heap[new].count = 17
                       /\ Cardinality(UsedSlots(mem, new)) = 17
                /\ (IS_ARRAY_NODE(mem, old) /\ slots >= 16) =>
                       /\ IS_ARRAY_NODE(mem, new)
                       /\ mem.heap[new].count = slots
                       /\ Cardinality(UsedSlots(mem, new)) = slots
                /\ (IS_ARRAY_NODE(mem, old) /\ slots = 15) =>
                       /\ IS_BITMAP_NODE(mem, new)
                       /\ map_node_bitmap_count(mem, new) = 15
                       /\ maps[i].count = 15 =>
                              Cardinality(LeafEntries(mem, new)) = 15)))

\* Map 1 was built from 17 keys with distinct root indices (an Array root of
\* 17 slots); map 2 is map 1 without key 1 (an Array root of 16); map 3 is
\* map 2 without key 17 (a Bitmap root of 15 leaves).
Wit_C21 ==
    /\ Len(maps) = 3
    /\ IS_ARRAY_NODE(mem, maps[1].root) /\ mem.heap[maps[1].root].count = 17
    /\ maps[2].origin.op = "delete" /\ maps[2].origin.src = 1
    /\ IS_ARRAY_NODE(mem, maps[2].root) /\ mem.heap[maps[2].root].count = 16
    /\ maps[3].origin.op = "delete" /\ maps[3].origin.src = 2
    /\ IS_BITMAP_NODE(mem, maps[3].root)
    /\ Cardinality(LeafEntries(mem, maps[3].root)) = 15

(***************************************************************************)
(* C22.  Every Collision node holds two bindings or more, with pairwise    *)
(* distinct keys whose 32-bit hash is the hash the node stores; when one   *)
(* of two bindings is removed the survivor becomes a leaf of the Bitmap    *)
(* parent.                                                                 *)
(***************************************************************************)
\* The keys stored in the node n itself.
OwnKeys(m, n) ==
    IF IS_ARRAY_NODE(m, n) THEN {}
    ELSE {At(m.heap[n].array, 2 * i) : i \in 0..((Len(m.heap[n].array) \div 2) - 1)}
             \ {NULL}

\* A Bitmap node with one entry, which is a leaf binding.
SingleLeaf(m, n) ==
    /\ IS_BITMAP_NODE(m, n)
    /\ map_node_bitmap_count(m, n) = 1
    /\ At(m.heap[n].array, 0) # NULL

Inv_C22 ==
    \A n \in 1..Len(mem.heap) :
        /\ IS_COLLISION_NODE(mem, n) =>
               /\ map_node_collision_count(mem, n) >= 2
               /\ Len(mem.heap[n].array) = 2 * map_node_collision_count(mem, n)
               /\ Cardinality(OwnKeys(mem, n)) = map_node_collision_count(mem, n)
               /\ \A k \in OwnKeys(mem, n) : map_hash(k) = mem.heap[n].hash
        /\ IS_BITMAP_NODE(mem, n) =>
               \A c \in Children(mem, n) :
                   /\ ~SingleLeaf(mem, c)
                   /\ IS_COLLISION_NODE(mem, c) => map_node_collision_count(mem, c) # 1

\* A draft of the empty Map had keys 18 and 19 in a Collision node below its
\* root; key 18 was deleted and key 19 is a leaf of the root.
Wit_C22 ==
    /\ last.op = "mut_delete" /\ last.key = 18 /\ last.err = ""
    /\ muts[0 - last.obj].ops = 3 /\ muts[0 - last.obj].count = 1
    /\ IS_BITMAP_NODE(mem, muts[0 - last.obj].root)
    /\ mem.heap[muts[0 - last.obj].root].array = <<19, 2>>

(***************************************************************************)
(* C23.  Every Bitmap node has popcount(bitmap) entries, 16 at most, and   *)
(* the entry of bit b is at index popcount(bitmap & (b - 1)): the keys     *)
(* found through that entry have the 5-bit index b at the node's shift.    *)
(***************************************************************************)
\* The pairs <<n, shift>> of the nodes below the given nodes, which are at shift.
RECURSIVE NodeShifts(_, _, _)
NodeShifts(m, nodes, shift) ==
    IF nodes = {} THEN {}
    ELSE {<<n, shift>> : n \in nodes}
             \cup NodeShifts(m, UNION {Children(m, n) : n \in nodes}, shift + 5)

\* The keys bound in the subtree of node n.
KeysBelow(m, n) == UNION {OwnKeys(m, x) : x \in Reach(m, {n}, {})}

\* The keys found through entry i of the Bitmap node n.
EntryKeys(m, n, i) ==
    IF At(m.heap[n].array, 2 * i) # NULL THEN {At(m.heap[n].array, 2 * i)}
    ELSE KeysBelow(m, At(m.heap[n].array, 2 * i + 1))

Inv_C23 ==
    \A p \in NodeShifts(mem, Roots(mem, maps, muts), 0) :
        IS_BITMAP_NODE(mem, p[1]) =>
            With(mem.heap[p[1]], LAMBDA s :
                /\ Len(s.array) = 2 * Cardinality(s.bitmap)
                /\ Cardinality(s.bitmap) <= 16
                /\ s.bitmap \subseteq 0..31
                /\ \A b \in s.bitmap :
                       With(Cardinality({x \in s.bitmap : x < b}), LAMBDA i :
                           /\ EntryKeys(mem, p[1], i) # {}
                           /\ \A k \in EntryKeys(mem, p[1], i) :
                                  map_mask(map_hash(k), p[2]) = b))

\* A draft holds 18 keys: its root is an Array node, and below slot 0 is a
\* Bitmap node at shift 5 with the leaf of key 1 at bit 0 and the leaf of
\* key 18 at bit 1.
Wit_C23 ==
    \E d \in 1..Len(muts) :
        /\ muts[d].count = 18
        /\ IS_ARRAY_NODE(mem, muts[d].root)
        /\ \E c \in Children(mem, muts[d].root) :
               /\ IS_BITMAP_NODE(mem, c)
               /\ mem.heap[c].bitmap = {0, 1}
               /\ mem.heap[c].array = <<1, 1, 18, 1>>

(***************************************************************************)
(* C24.  The a_count of every Array node is the number of its slots that   *)
(* are not empty, also after a draft has incremented or decremented it in  *)
(* place, and an Array node reachable from a Map has a_count >= 16.        *)
(***************************************************************************)
Inv_C24 ==
    /\ \A n \in 1..Len(mem.heap) :
           IS_ARRAY_NODE(mem, n) =>
               /\ mem.heap[n].count = Cardinality(UsedSlots(mem, n))
               /\ Len(mem.heap[n].array) = HAMT_ARRAY_NODE_SIZE
    /\ \A n \in Reach(mem, {maps[i].root : i \in 1..Len(maps)}, {}) :
           IS_ARRAY_NODE(mem, n) => mem.heap[n].count >= 16

\* A draft of the Map of 16 keys set key 17 (its root became an Array node
\* with the draft's token) and deleted it again: the a_count of the root went
\* from 17 to 16 in place.
Wit_C24 ==
    /\ last.op = "mut_delete" /\ last.key = 17 /\ last.err = ""
    /\ muts[0 - last.obj].ops = 2 /\ muts[0 - last.obj].count = 16
    /\ IS_ARRAY_NODE(mem, muts[0 - last.obj].root)
    /\ mem.heap[muts[0 - last.obj].root].mutid = muts[0 - last.obj].mutid
    /\ mem.heap[muts[0 - last.obj].root].count = 16

(***************************************************************************)
(* C25.  Bitmap and Array nodes are at the shifts 0, 5, .., 30 only, a     *)
(* node at shift 35 is a Collision node, no node is deeper, and a root is  *)
(* never a Collision node: a path from a root has 8 nodes at most.         *)
(***************************************************************************)
Inv_C25 ==
    /\ \A p \in NodeShifts(mem, Roots(mem, maps, muts), 0) :
           /\ p[2] <= 5 * (_Py_HAMT_MAX_TREE_DEPTH - 1)
           /\ ~IS_COLLISION_NODE(mem, p[1]) => p[2] <= 30
           /\ p[2] = 35 => IS_COLLISION_NODE(mem, p[1])
    /\ \A r \in Roots(mem, maps, muts) : ~IS_COLLISION_NODE(mem, r)

\* A Map holds keys 6, 20 and 21: Bitmap nodes at the shifts 0 to 30, and
\* below the last the Collision node of keys 6 and 21 at shift 35.
Wit_C25 ==
    \E i \in 1..Len(maps) :
        /\ maps[i].count = 3
        /\ \E p \in NodeShifts(mem, {maps[i].root}, 0) :
               /\ p[2] = 35 /\ IS_COLLISION_NODE(mem, p[1])
               /\ OwnKeys(mem, p[1]) = {6, 21}
        /\ \E p \in NodeShifts(mem, {maps[i].root}, 0) :
               /\ p[2] = 30 /\ IS_BITMAP_NODE(mem, p[1])
               /\ OwnKeys(mem, p[1]) = {20}

(***************************************************************************)
(* C26.  The iterator never leaves its arrays of _Py_HAMT_MAX_TREE_DEPTH   *)
(* levels: iterating any Map or draft ends with the end of the items and   *)
(* not with a descent that the arrays have no room for.                    *)
(***************************************************************************)
\* The deepest level the iterator is at while it yields the items from iter on.
RECURSIVE IterDeepest(_, _)
IterDeepest(m, iter) ==
    With(map_iterator_next(m, iter), LAMBDA r :
        IF r.res = "I_ITEM"
        THEN With(IterDeepest(m, r.iter), LAMBDA d :
                 IF d > r.iter.level THEN d ELSE r.iter.level)
        ELSE iter.level)

FirstDiff(h1, h2) ==
    IF h1 = h2 THEN 7
    ELSE CHOOSE l \in 0..6 :
             /\ map_mask(h1, 5 * l) # map_mask(h2, 5 * l)
             /\ \A x \in 0..(l - 1) : map_mask(h1, 5 * x) = map_mask(h2, 5 * x)

\* The node that holds key k below root, with its shift.
Holder(m, root, k) ==
    CHOOSE p \in NodeShifts(m, {root}, 0) : k \in OwnKeys(m, p[1])

Inv_C27 ==
    \A i \in 1..Len(maps) :
        With(maps[i].origin, LAMBDA o :
        (/\ o.op = "set"
         /\ maps[o.src].count > 0
         /\ ~map_find(mem, maps[o.src], o.key).found
         /\ \A n \in Reach(mem, {maps[i].root}, {}) : ~IS_ARRAY_NODE(mem, n)) =>
            With(KeysBelow(mem, maps[o.src].root), LAMBDA others :
            With(Holder(mem, maps[i].root, o.key), LAMBDA p :
            With(CHOOSE x \in {FirstDiff(map_hash(o.key), map_hash(k)) : k \in others} :
                     \A k \in others : FirstDiff(map_hash(o.key), map_hash(k)) <= x,
                 LAMBDA P :
                /\ map_find(mem, maps[i], o.key).found
                /\ P < 7 => /\ IS_BITMAP_NODE(mem, p[1])
                            /\ p[2] = 5 * P
                            /\ P <= 6
                /\ P = 7 =>
                       /\ IS_COLLISION_NODE(mem, p[1])
                       /\ mem.heap[p[1]].hash = map_hash(o.key)
                       /\ \A k \in others :
                              (/\ map_hash(k) = map_hash(o.key)
                               /\ IS_BITMAP_NODE(mem, Holder(mem, maps[o.src].root, k)[1])) =>
                                  p[2] = Holder(mem, maps[o.src].root, k)[2] + 5))))

\* Map 2 is the empty Map with key 6, a leaf of the root; map 3 is map 2 with
\* key 20, whose hash differs from that of key 6 in the last 5-bit index only:
\* a chain of 7 Bitmap nodes, with both keys in the node at shift 30.
Wit_C27 ==
    /\ Len(maps) = 3
    /\ maps[1].count = 0
    /\ maps[2].origin.op = "set" /\ maps[2].origin.key = 6 /\ maps[2].origin.src = 1
    /\ Holder(mem, maps[2].root, 6)[2] = 0
    /\ maps[3].origin.op = "set" /\ maps[3].origin.key = 20 /\ maps[3].origin.src = 2
    /\ Holder(mem, maps[3].root, 6)[2] = 30 /\ Holder(mem, maps[3].root, 20)[2] = 30
    /\ Cardinality(Reach(mem, {maps[3].root}, {})) = 7

(***************************************************************************)
(* C28.  After a set on a live draft that changed the draft, every node on *)
(* the path from the root of the draft to the key carries the token of the *)
(* draft, and a further set of that key in that draft allocates no node.   *)
(***************************************************************************)
\* The nodes that a find of the key with the given hash visits from node on.
RECURSIVE PathTo(_, _, _, _)
PathTo(m, node, shift, hash) ==
    LET s == m.heap[node]
        idx == map_bitindex(s.bitmap, map_bitpos(hash, shift))
    IN IF /\ s.type = "Bitmap"
          /\ map_bitpos(hash, shift) \in s.bitmap
          /\ At(s.array, 2 * idx) = NULL
       THEN {node} \cup PathTo(m, At(s.array, 2 * idx + 1), shift + 5, hash)
       ELSE IF s.type = "Array" /\ At(s.array, map_mask(hash, shift)) # NULL
       THEN {node} \cup PathTo(m, At(s.array, map_mask(hash, shift)), shift + 5, hash)
       ELSE {node}

\* The draft o has the token of each node on the path to key, and setting key
\* to any value allocates no node.
PathOwned(m, o, key) ==
    /\ \A n \in PathTo(m, o.root, 0, map_hash(key)) : m.heap[n].mutid = o.mutid
    /\ \A v \in Values :
           Len(mapmut_py_set(m, o, key, v).mem.heap) = Len(m.heap)

Cex_C28 ==
    [][(/\ last'.op = "mut_set" /\ last'.err = ""
        /\ Bindings(mem', muts'[0 - last'.obj]) # Bindings(mem, muts[0 - last'.obj]))
           => PathOwned(mem', muts'[0 - last'.obj], last'.key)]_vars

(***************************************************************************)
(* C29.  Every mutation token handed out is not 0 and differs from every   *)
(* token handed out before, also when the counter wraps around.            *)
(***************************************************************************)
\* The tokens that the nodes, Maps' trees and drafts of a state carry.
TokensInUse(m, mu) ==
    {m.heap[n].mutid : n \in 1..Len(m.heap)} \cup {mu[d].mutid : d \in 1..Len(mu)}

\* A step hands out the tokens from the counter before it up to the counter
\* after it: none of them is 0, and none is a token already in use.
Cex_C29 ==
    [][\A t \in mutid_counter..(mutid_counter' - 1) :
           /\ t # 0
           /\ t \notin (TokensInUse(mem, muts) \ {0})]_vars

(***************************************************************************)
(* C30.  A Map that finish() returned while an update of the same draft    *)
(* was in progress (the iterator of the source called finish()) is not     *)
(* modified by the rest of the update: when update returns, the Map has    *)
(* the length, the find results and the iteration sequence it had when     *)
(* finish() returned.                                                      *)
(***************************************************************************)
Cex_C30 ==
    (last.op = "mut_update_finish" /\ last.res # 0)
        => Observable(mem, maps[last.res]) = maps[last.res].born

====
